---------------------------- MODULE Spec2Model ----------------------------
(***************************************************************************)
(* A model of the nutexb crate: the format catalog, the layer mip size     *)
(* table, the block-linear swizzle and the footer-first container codec.   *)
(*                                                                         *)
(* Byte buffers are sequences of 0..255; the byte at offset p of buffer b  *)
(* is b[p + 1].  A u32 that the program stores in a file is kept as its    *)
(* four little-endian bytes where its value can pass 2^31 (the mip size    *)
(* table), and as a number elsewhere.  usize is taken to be 64 bits wide.  *)
(***************************************************************************)
EXTENDS Integers, Sequences, FiniteSets, TLC

VARIABLES
    pc,         \* which step of the current scenario has been taken
    mip_args,   \* arguments of calculate_layer_mip_sizes
    mip_tables, \* its result: one table per layer
    sw_args,    \* parameters of a swizzle: format, width, height, mips, layers
    linear,     \* the row-major source buffer
    tiled,      \* the block-linear buffer swizzle produced
    untiled,    \* the buffer deswizzle produced from tiled
    surface,    \* the Surface handed to from_surface / from_surface_unswizzled
    name,       \* the name handed to them (a sequence of bytes)
    file,       \* the NutexbFile in memory
    stream,     \* the bytes of a written file
    result      \* what NutexbFile::read returned for stream

vars == <<pc, mip_args, mip_tables, sw_args, linear, tiled, untiled,
          surface, name, file, stream, result>>

Idle == <<>>

-----------------------------------------------------------------------------
(* Bounds of the model. *)

MaxDim == 9
MaxWidth == 5
MaxHeight == 11
MaxDepth == 2
MaxMipCount == 2
MaxLayerCount == 2

\* A dimension large enough for a mip of a one-byte format to need 2^32 bytes.
BigDim == 256 * 256

-----------------------------------------------------------------------------
(* Numbers. *)

Max(a, b) == IF a >= b THEN a ELSE b

Min(a, b) == IF a <= b THEN a ELSE b

RECURSIVE Pow2(_)
Pow2(k) == IF k = 0 THEN 1 ELSE 2 * Pow2(k - 1)

\* n >> k
RECURSIVE shr(_, _)
shr(n, k) == IF k = 0 THEN n ELSE shr(n \div 2, k - 1)

\* The k little-endian bytes of n (n mod 256^k).
RECURSIVE to_le_bytes(_, _)
to_le_bytes(n, k) ==
    IF k = 0 THEN <<>> ELSE <<n % 256>> \o to_le_bytes(n \div 256, k - 1)

\* The number a little-endian byte string holds.
RECURSIVE from_le_bytes(_)
from_le_bytes(b) ==
    IF b = <<>> THEN 0 ELSE b[1] + 256 * from_le_bytes(Tail(b))

\* a * m for a little-endian byte string a and a number m < 2^22, as many
\* bytes as a has: the product modulo 256^Len(a).
RECURSIVE mul_carry(_, _, _)
mul_carry(a, m, carry) ==
    IF a = <<>> THEN <<>>
    ELSE LET t == a[1] * m + carry
         IN  <<t % 256>> \o mul_carry(Tail(a), m, t \div 256)

UsizeBytes == 8

U32Bytes == 4

usize_of(n) == to_le_bytes(n, UsizeBytes)

\* usize multiplication, wrapping at 2^64.
usize_mul(a, m) == mul_carry(a, m, 0)

\* a < b for little-endian byte strings of one length.
RECURSIVE le_less(_, _)
le_less(a, b) ==
    IF a = <<>> THEN FALSE
    ELSE LET n == Len(a)
         IN  IF a[n] # b[n] THEN a[n] < b[n]
             ELSE le_less(SubSeq(a, 1, n - 1), SubSeq(b, 1, n - 1))

usize_max(a, b) == IF le_less(a, b) THEN b ELSE a

\* x as u32
as_u32(a) == SubSeq(a, 1, U32Bytes)

\* (n + d - 1) / d
div_round_up(n, d) == (n + d - 1) \div d

-----------------------------------------------------------------------------
(* NutexbFormat. *)

Uncompressed ==
    {"R8Unorm", "R8G8B8A8Unorm", "R8G8B8A8Srgb", "R32G32B32A32Float",
     "B8G8R8A8Unorm", "B8G8R8A8Srgb"}

Compressed ==
    {"BC1Unorm", "BC1Srgb", "BC2Unorm", "BC2Srgb", "BC3Unorm", "BC3Srgb",
     "BC4Unorm", "BC4Snorm", "BC5Unorm", "BC5Snorm", "BC6Ufloat", "BC6Sfloat",
     "BC7Unorm", "BC7Srgb"}

NutexbFormat == Uncompressed \union Compressed

\* bytes_per_pixel taking a BC4 block for 16 bytes.
bytes_per_pixel_bc4_wide(f) ==
    CASE f \in {"R8G8B8A8Unorm", "R8G8B8A8Srgb", "B8G8R8A8Unorm", "B8G8R8A8Srgb"} -> 4
      [] f \in {"BC1Unorm", "BC1Srgb"} -> 8
      [] f = "R8Unorm" -> 1
      [] OTHER -> 16

bytes_per_pixel(f) ==
    CASE f \in {"R8G8B8A8Unorm", "R8G8B8A8Srgb", "B8G8R8A8Unorm", "B8G8R8A8Srgb"} -> 4
      [] f = "R32G32B32A32Float" -> 16
      [] f \in {"BC1Unorm", "BC1Srgb"} -> 8
      [] f \in {"BC2Unorm", "BC2Srgb"} -> 16
      [] f \in {"BC3Unorm", "BC3Srgb"} -> 16
      [] f \in {"BC4Unorm", "BC4Snorm"} -> 8
      [] f \in {"BC5Unorm", "BC5Snorm"} -> 16
      [] f \in {"BC6Ufloat", "BC6Sfloat"} -> 16
      [] f \in {"BC7Unorm", "BC7Srgb"} -> 16
      [] f = "R8Unorm" -> 1

block_width(f) ==
    IF f \in {"R8Unorm", "R8G8B8A8Unorm", "R8G8B8A8Srgb", "R32G32B32A32Float",
              "B8G8R8A8Unorm", "B8G8R8A8Srgb"}
    THEN 1 ELSE 4

block_height(f) == block_width(f)

block_depth(f) == 1

block_dim(f) ==
    [width |-> block_width(f), height |-> block_height(f), depth |-> block_depth(f)]

-----------------------------------------------------------------------------
(* The layer mip size table. *)

\* The size of one mip as calculate_layer_mip_sizes computes it: a usize
\* product cast to u32.
mip_size_entry(width, height, depth, dim, bpp, mip) ==
    LET mip_width == Max(div_round_up(shr(width, mip), dim.width), 1)
        mip_height == Max(div_round_up(shr(height, mip), dim.height), 1)
        mip_depth == Max(div_round_up(shr(depth, mip), dim.depth), 1)
        mip_size ==
            usize_mul(usize_mul(usize_mul(usize_of(mip_width), mip_height),
                                mip_depth), bpp)
    IN  as_u32(usize_max(mip_size, usize_of(bpp)))

\* calculate_layer_mip_sizes giving a single table however many layers.
calculate_layer_mip_sizes_single_layer(width, height, depth, dim, bpp, mip_count, layer_count) ==
    <<[mip \in 1..mip_count |-> mip_size_entry(width, height, depth, dim, bpp, mip - 1)]>>

calculate_layer_mip_sizes(width, height, depth, dim, bpp, mip_count, layer_count) ==
    LET layer == [mip \in 1..mip_count |->
                    mip_size_entry(width, height, depth, dim, bpp, mip - 1)]
    IN  [l \in 1..layer_count |-> layer]

-----------------------------------------------------------------------------
(* Scenario: one call of calculate_layer_mip_sizes. *)

Dims == (1..MaxDim) \union {BigDim}

MipArgs ==
    [image_format : NutexbFormat, width : Dims, height : Dims,
     depth : 1..MaxDepth, mip_count : 1..MaxMipCount, layer_count : 1..MaxLayerCount]

InitMip ==
    /\ pc = "args"
    /\ mip_args \in MipArgs
    /\ mip_tables = Idle
    /\ sw_args = Idle /\ linear = Idle /\ tiled = Idle /\ untiled = Idle
    /\ surface = Idle /\ name = Idle /\ file = Idle /\ stream = Idle
    /\ result = Idle

CalculateLayerMipSizes ==
    /\ pc = "args"
    /\ mip_tables' =
         calculate_layer_mip_sizes(mip_args.width, mip_args.height, mip_args.depth,
                                   block_dim(mip_args.image_format),
                                   bytes_per_pixel(mip_args.image_format),
                                   mip_args.mip_count, mip_args.layer_count)
    /\ pc' = "sized"
    /\ UNCHANGED <<mip_args, sw_args, linear, tiled, untiled,
                   surface, name, file, stream, result>>

NextMip == CalculateLayerMipSizes

SpecMip == InitMip /\ [][NextMip]_vars

-----------------------------------------------------------------------------
(* The block-linear swizzle of one two-dimensional surface. *)

\* a | b
RECURSIVE bit_or(_, _)
bit_or(a, b) ==
    IF a = 0 THEN b
    ELSE IF b = 0 THEN a
    ELSE Max(a % 2, b % 2) + 2 * bit_or(a \div 2, b \div 2)

\* ((x - 1) | (y - 1)) + 1
round_up(x, y) == bit_or(x - 1, y - 1) + 1

GobBytes == 512

\* get_addr_block_linear without the (y % 2) * 16 term: two rows of a GOB
\* share their addresses.
get_addr_block_linear_rows_merged(x, y, width, bpp, base_address, block_height_gobs) ==
    LET image_width_in_gobs == div_round_up(width * bpp, 64)
        gob_address ==
            base_address
            + (y \div (8 * block_height_gobs)) * GobBytes * block_height_gobs
                * image_width_in_gobs
            + ((x * bpp) \div 64) * GobBytes * block_height_gobs
            + ((y % (8 * block_height_gobs)) \div 8) * GobBytes
        xb == x * bpp
    IN  gob_address
        + ((xb % 64) \div 32) * 256
        + ((y % 8) \div 2) * 64
        + ((xb % 32) \div 16) * 32
        + (xb % 16)

get_addr_block_linear(x, y, width, bpp, base_address, block_height_gobs) ==
    LET image_width_in_gobs == div_round_up(width * bpp, 64)
        gob_address ==
            base_address
            + (y \div (8 * block_height_gobs)) * GobBytes * block_height_gobs * image_width_in_gobs
            + ((x * bpp) \div 64) * GobBytes * block_height_gobs
            + ((y % (8 * block_height_gobs)) \div 8) * GobBytes
        xb == x * bpp
    IN  gob_address
        + ((xb % 64) \div 32) * 256
        + ((y % 8) \div 2) * 64
        + ((xb % 32) \div 16) * 32
        + (y % 2) * 16
        + (xb % 16)

\* A buffer, or the panic of a slice index out of range.
Buffer(b) == [ok |-> TRUE, bytes |-> b]

Panic == [ok |-> FALSE, bytes |-> <<>>]

\* dst[dpos .. dpos + n].copy_from_slice(&src[spos .. spos + n]); both slices
\* are in range.
RECURSIVE copy_from_slice(_, _, _, _, _)
copy_from_slice(dst, dpos, src, spos, n) ==
    IF n = 0 \/ Len(dst) < 0 THEN dst
    ELSE copy_from_slice([dst EXCEPT ![dpos + 1] = src[spos + 1]],
                         dpos + 1, src, spos + 1, n - 1)

\* The inner loop of _swizzle: row y from unit x on, out being what the
\* earlier units left.
RECURSIVE swizzle_row(_, _, _, _, _, _, _, _, _, _, _)
swizzle_row(x, y, out, width, pitch, surf_size, bpp, tile_mode, block_height_gobs, data, to_swizzle) ==
    IF x >= width \/ Len(out) < 0 THEN Buffer(out)
    ELSE LET pos == IF tile_mode = 1 THEN y * pitch + x * bpp
                    ELSE get_addr_block_linear(x, y, width, bpp, 0,
                                               block_height_gobs)
             pos_ == (y * width + x) * bpp
         IN  IF pos + bpp <= surf_size
             THEN IF to_swizzle
                  THEN IF pos_ + bpp > Len(data) THEN Panic
                       ELSE swizzle_row(x + 1, y,
                                copy_from_slice(out, pos, data, pos_, bpp),
                                width, pitch, surf_size, bpp, tile_mode,
                                block_height_gobs, data, to_swizzle)
                  ELSE IF pos + bpp > Len(data) THEN Panic
                       ELSE swizzle_row(x + 1, y,
                                copy_from_slice(out, pos_, data, pos, bpp),
                                width, pitch, surf_size, bpp, tile_mode,
                                block_height_gobs, data, to_swizzle)
             ELSE swizzle_row(x + 1, y, out, width, pitch, surf_size, bpp,
                              tile_mode, block_height_gobs, data, to_swizzle)

\* The outer loop of _swizzle: the rows from y on.
RECURSIVE swizzle_rows(_, _, _, _, _, _, _, _, _, _, _)
swizzle_rows(y, out, width, height, pitch, surf_size, bpp, tile_mode, block_height_gobs, data, to_swizzle) ==
    IF y >= height THEN Buffer(out)
    ELSE LET row == swizzle_row(0, y, out, width, pitch, surf_size, bpp,
                                tile_mode, block_height_gobs, data, to_swizzle)
         IN  IF ~row.ok THEN Panic
             ELSE swizzle_rows(y + 1, row.bytes, width, height, pitch, surf_size,
                               bpp, tile_mode, block_height_gobs, data, to_swizzle)

\* The pitch and the size of the surface _swizzle allocates.
swizzle_pitch(width, bpp, round_pitch, tile_mode) ==
    IF tile_mode = 1
    THEN IF round_pitch THEN round_up(width * bpp, 32) ELSE width * bpp
    ELSE round_up(width * bpp, 64)

swizzle_surf_size(width, height, bpp, round_pitch, tile_mode, block_height_gobs) ==
    IF tile_mode = 1
    THEN swizzle_pitch(width, bpp, round_pitch, tile_mode) * height
    ELSE swizzle_pitch(width, bpp, round_pitch, tile_mode)
            * round_up(height, block_height_gobs * 8)

_swizzle(width_px, height_px, _depth, blk_width, blk_height, _blk_depth, round_pitch, bpp, tile_mode, block_height_log_2, data, to_swizzle) ==
    LET block_height_gobs == Pow2(block_height_log_2)
        width == div_round_up(width_px, blk_width)
        height == div_round_up(height_px, blk_height)
        pitch == swizzle_pitch(width, bpp, round_pitch, tile_mode)
        surf_size == swizzle_surf_size(width, height, bpp, round_pitch, tile_mode,
                                       block_height_gobs)
        out == [p \in 1..surf_size |-> 0]
    IN  swizzle_rows(0, out, width, height, pitch, surf_size, bpp, tile_mode,
                     block_height_gobs, data, to_swizzle)

swizzle(width, height, _depth, blk_width, blk_height, _blk_depth, round_pitch, bpp, tile_mode, size_range, data) ==
    _swizzle(width, height, _depth, blk_width, blk_height, _blk_depth,
             round_pitch, bpp, tile_mode, size_range, data, TRUE)

deswizzle(width, height, _depth, blk_width, blk_height, _blk_depth, round_pitch, bpp, tile_mode, size_range, data) ==
    _swizzle(width, height, _depth, blk_width, blk_height, _blk_depth,
             round_pitch, bpp, tile_mode, size_range, data, FALSE)

-----------------------------------------------------------------------------
(* The swizzle of a whole surface: every mip of every layer. *)

RECURSIVE Log2(_)
Log2(n) == IF n <= 1 THEN 0 ELSE 1 + Log2(n \div 2)

\* The block height, in GOBs, of the base mip: taller surfaces get taller
\* blocks, up to sixteen GOBs.
block_height_mip0(height) ==
    LET height_and_half == height + (height \div 2)
    IN  IF height_and_half >= 128 THEN 16
        ELSE IF height_and_half >= 64 THEN 8
        ELSE IF height_and_half >= 32 THEN 4
        ELSE IF height_and_half >= 16 THEN 2
        ELSE 1

\* The block height of a mip: the smallest that still covers the mip's rows,
\* never more than the base mip's.
RECURSIVE mip_block_height(_, _)
mip_block_height(mip_height, base_block_height) ==
    IF base_block_height > 1 /\ mip_height <= (base_block_height \div 2) * 8
    THEN mip_block_height(mip_height, base_block_height \div 2)
    ELSE base_block_height

\* The two-dimensional slices of a surface in the order their bytes are laid
\* out: layer by layer, within a layer mip by mip, within a mip one slice per
\* unit of depth.  Each slice has its size in pixels and its block height.
mip_slices(width, height, depth, dim, mip, base_block_height) ==
    LET mip_width == Max(shr(width, mip), 1)
        mip_height == Max(shr(height, mip), 1)
        mip_depth == Max(div_round_up(shr(depth, mip), dim.depth), 1)
        slice == [width |-> mip_width, height |-> mip_height, mip |-> mip,
                  block_height_log_2 |->
                      Log2(mip_block_height(div_round_up(mip_height, dim.height),
                                            base_block_height))]
    IN  [z \in 1..mip_depth |-> slice]

RECURSIVE layer_slices(_, _, _, _, _, _, _)
layer_slices(width, height, depth, dim, mip, mipmap_count, base_block_height) ==
    IF mip >= mipmap_count THEN <<>>
    ELSE mip_slices(width, height, depth, dim, mip, base_block_height)
         \o layer_slices(width, height, depth, dim, mip + 1, mipmap_count,
                         base_block_height)

RECURSIVE repeat(_, _)
repeat(s, n) == IF n = 0 THEN <<>> ELSE s \o repeat(s, n - 1)

surface_slices(width, height, depth, dim, mipmap_count, layer_count) ==
    repeat(layer_slices(width, height, depth, dim, 0, mipmap_count,
                        block_height_mip0(div_round_up(height, dim.height))),
           layer_count)

\* The bytes one slice takes in the linear and in the tiled buffer.
slice_linear_size(sl, dim, bpp) ==
    div_round_up(sl.width, dim.width) * div_round_up(sl.height, dim.height) * bpp

slice_tiled_size(sl, dim, bpp) ==
    swizzle_surf_size(div_round_up(sl.width, dim.width),
                      div_round_up(sl.height, dim.height), bpp, FALSE, 0,
                      Pow2(sl.block_height_log_2))

RECURSIVE sum_sizes(_, _, _, _)
sum_sizes(slices, dim, bpp, tiled_sizes) ==
    IF slices = <<>> THEN 0
    ELSE (IF tiled_sizes THEN slice_tiled_size(Head(slices), dim, bpp)
          ELSE slice_linear_size(Head(slices), dim, bpp))
         + sum_sizes(Tail(slices), dim, bpp, tiled_sizes)

deswizzled_surface_size(width, height, depth, dim, bpp, mipmap_count, layer_count) ==
    sum_sizes(surface_slices(width, height, depth, dim, mipmap_count, layer_count),
              dim, bpp, FALSE)

swizzled_surface_size(width, height, depth, dim, bpp, mipmap_count, layer_count) ==
    sum_sizes(surface_slices(width, height, depth, dim, mipmap_count, layer_count),
              dim, bpp, TRUE)

\* A result: Ok(bytes) or Err(error).
Ok(b) == [ok |-> TRUE, bytes |-> b]

Err(e) == [ok |-> FALSE, error |-> e]

\* Every slice swizzled into (or deswizzled from) its own range, the ranges
\* appended in order.
RECURSIVE transform_slices(_, _, _, _, _, _)
transform_slices(slices, dim, bpp, data, offset, to_swizzle) ==
    IF slices = <<>> THEN <<>>
    ELSE LET sl == Head(slices)
             lin == slice_linear_size(sl, dim, bpp)
             til == slice_tiled_size(sl, dim, bpp)
             used == IF to_swizzle THEN lin ELSE til
             part == SubSeq(data, offset + 1, offset + used)
             done == _swizzle(sl.width, sl.height, 1, dim.width, dim.height,
                              dim.depth, FALSE, bpp, 0, sl.block_height_log_2,
                              part, to_swizzle)
         IN  (IF to_swizzle THEN done.bytes ELSE SubSeq(done.bytes, 1, lin))
             \o transform_slices(Tail(slices), dim, bpp, data, offset + used,
                                 to_swizzle)

swizzle_surface(width, height, depth, data, dim, bpp, mipmap_count, layer_count) ==
    IF Len(data) < deswizzled_surface_size(width, height, depth, dim, bpp,
                                           mipmap_count, layer_count)
    THEN Err("NotEnoughData")
    ELSE Ok(transform_slices(surface_slices(width, height, depth, dim,
                                            mipmap_count, layer_count),
                             dim, bpp, data, 0, TRUE))

deswizzle_surface(width, height, depth, data, dim, bpp, mipmap_count, layer_count) ==
    IF Len(data) < swizzled_surface_size(width, height, depth, dim, bpp,
                                         mipmap_count, layer_count)
    THEN Err("NotEnoughData")
    ELSE Ok(transform_slices(surface_slices(width, height, depth, dim,
                                            mipmap_count, layer_count),
                             dim, bpp, data, 0, FALSE))

swizzle_data(width, height, depth, dim, bpp, data, mipmap_count, array_count) ==
    swizzle_surface(width, height, depth, data, dim, bpp, mipmap_count, array_count)

deswizzle_data(width, height, depth, dim, bpp, data, mipmap_count, array_count) ==
    deswizzle_surface(width, height, depth, data, dim, bpp, mipmap_count, array_count)

-----------------------------------------------------------------------------
(* Scenario: a surface is swizzled and the result deswizzled. *)

\* A buffer of n bytes, none zero, neighbours different.
TestBytes(n, seed) == [i \in 1..n |-> ((i * 7 + seed) % 251) + 1]

Seeds == {0, 100}

\* Heights whose base mip gets blocks of 4, 8 and 16 GOBs.
TallHeights == {22, 43, 86}

\* The surfaces swizzled: every format at the small sizes, and a format of
\* each unit size at the tall ones.
SwizzleArgs ==
    [image_format : NutexbFormat, width : 1..MaxWidth, height : 1..MaxHeight,
     depth : {1}, mipmap_count : 1..MaxMipCount, layer_count : 1..MaxLayerCount]
    \union
    [image_format : {"R8Unorm", "R32G32B32A32Float", "BC1Unorm"},
     width : {MaxWidth}, height : TallHeights,
     depth : {1}, mipmap_count : 1..MaxMipCount, layer_count : {1}]

InitSwizzle ==
    /\ pc = "linear"
    /\ sw_args \in SwizzleArgs
    /\ \E seed \in Seeds :
         linear = TestBytes(
             deswizzled_surface_size(sw_args.width, sw_args.height, sw_args.depth,
                 block_dim(sw_args.image_format),
                 bytes_per_pixel(sw_args.image_format),
                 sw_args.mipmap_count, sw_args.layer_count), seed)
    /\ tiled = Idle /\ untiled = Idle
    /\ mip_args = Idle /\ mip_tables = Idle
    /\ surface = Idle /\ name = Idle /\ file = Idle /\ stream = Idle
    /\ result = Idle

SwizzleData ==
    /\ pc = "linear"
    /\ tiled' = swizzle_data(sw_args.width, sw_args.height, sw_args.depth,
                    block_dim(sw_args.image_format),
                    bytes_per_pixel(sw_args.image_format), linear,
                    sw_args.mipmap_count, sw_args.layer_count)
    /\ pc' = "tiled"
    /\ UNCHANGED <<mip_args, mip_tables, sw_args, linear, untiled,
                   surface, name, file, stream, result>>

DeswizzleData ==
    /\ pc = "tiled"
    /\ tiled.ok
    /\ untiled' = deswizzle_data(sw_args.width, sw_args.height, sw_args.depth,
                      block_dim(sw_args.image_format),
                      bytes_per_pixel(sw_args.image_format), tiled.bytes,
                      sw_args.mipmap_count, sw_args.layer_count)
    /\ pc' = "untiled"
    /\ UNCHANGED <<mip_args, mip_tables, sw_args, linear, tiled,
                   surface, name, file, stream, result>>

NextSwizzle == SwizzleData \/ DeswizzleData

SpecSwizzle == InitSwizzle /\ [][NextSwizzle]_vars

-----------------------------------------------------------------------------
(* The mip size table: claims C7, C8, C9. *)

ExactBytes == 12

CeilDiv(a, b) == IF a % b = 0 THEN a \div b ELSE (a \div b) + 1

\* The size of mip i as a natural number, as little-endian bytes wide enough
\* that nothing is lost: blocks across * blocks down * blocks deep * bytes per
\* unit, and never less than the bytes of one unit.
ExactMipSize(f, w, h, d, i) ==
    LET bw == Max(CeilDiv(w \div Pow2(i), block_width(f)), 1)
        bh == Max(CeilDiv(h \div Pow2(i), block_height(f)), 1)
        bd == Max(CeilDiv(d \div Pow2(i), block_depth(f)), 1)
        one == to_le_bytes(bytes_per_pixel(f), ExactBytes)
        all == mul_carry(mul_carry(mul_carry(one, bw, 0), bh, 0), bd, 0)
    IN  IF le_less(all, one) THEN one ELSE all

ZeroExtend(b, n) == b \o [k \in 1..(n - Len(b)) |-> 0]

Sized == pc = "sized"

\* C7: every entry of the mip size table equals
\* max(max(ceil((width >> i) / block_width), 1) * max(ceil((height >> i) /
\* block_height), 1) * max(ceil((depth >> i) / block_depth), 1) *
\* bytes_per_unit, bytes_per_unit).
C7_EntryIsMipByteSize ==
    Sized =>
        \A l \in DOMAIN mip_tables : \A m \in DOMAIN mip_tables[l] :
            ZeroExtend(mip_tables[l][m], ExactBytes)
                = ExactMipSize(mip_args.image_format, mip_args.width,
                               mip_args.height, mip_args.depth, m - 1)

\* Scenario B: an 8-byte 4x4-block format at 8x8 with two mips gives [32, 8].
C7_ScenarioB ==
    /\ Sized
    /\ mip_args.image_format = "BC1Unorm"
    /\ mip_args.width = 8 /\ mip_args.height = 8 /\ mip_args.depth = 1
    /\ mip_args.mip_count = 2
    /\ mip_tables[1] = <<to_le_bytes(32, U32Bytes), to_le_bytes(8, U32Bytes)>>

\* The claim of C7 where no mip needs 2^32 bytes or more: there it holds.
C7_EntryIsMipByteSizeBelow2To32 ==
    Sized =>
        \A l \in DOMAIN mip_tables : \A m \in DOMAIN mip_tables[l] :
            LET exact == ExactMipSize(mip_args.image_format, mip_args.width,
                                      mip_args.height, mip_args.depth, m - 1)
            IN  SubSeq(exact, U32Bytes + 1, ExactBytes)
                    = [k \in 1..(ExactBytes - U32Bytes) |-> 0]
                => ZeroExtend(mip_tables[l][m], ExactBytes) = exact

\* C8: every entry, as the u32 the table stores, is at least bytes_per_unit,
\* so never zero.
C8_EntryAtLeastBytesPerUnit ==
    Sized =>
        \A l \in DOMAIN mip_tables : \A m \in DOMAIN mip_tables[l] :
            /\ ~le_less(mip_tables[l][m],
                        to_le_bytes(bytes_per_pixel(mip_args.image_format), U32Bytes))
            /\ mip_tables[l][m] # to_le_bytes(0, U32Bytes)

\* A table whose first entry is the u32 zero.
C8_ZeroEntry ==
    /\ Sized
    /\ mip_tables[1][1] = to_le_bytes(0, U32Bytes)

\* C9: the table is non-increasing: entry i+1 <= entry i.
C9_NonIncreasing ==
    Sized =>
        \A l \in DOMAIN mip_tables : \A m \in DOMAIN mip_tables[l] :
            (m + 1) \in DOMAIN mip_tables[l]
                => ~le_less(mip_tables[l][m], mip_tables[l][m + 1])

\* The claim of C9 where no mip needs 2^32 bytes or more: there it holds.
C9_NonIncreasingBelow2To32 ==
    (Sized /\ mip_args.width # BigDim /\ mip_args.height # BigDim) =>
        \A l \in DOMAIN mip_tables : \A m \in DOMAIN mip_tables[l] :
            (m + 1) \in DOMAIN mip_tables[l]
                => ~le_less(mip_tables[l][m], mip_tables[l][m + 1])

-----------------------------------------------------------------------------
(* The container: a NutexbFile and the bytes it is written as. *)

FOOTER_SIZE == 112

LAYER_MIPMAPS_SIZE == 64

\* pad_size_to = 0x40, of the footer's string and of a layer's mipmap sizes.
PadSize == 64

\* The u32 each NutexbFormat is written as.
format_code(f) ==
    CASE f = "R8Unorm" -> 256
      [] f = "R8G8B8A8Unorm" -> 1024
      [] f = "R8G8B8A8Srgb" -> 1029
      [] f = "R32G32B32A32Float" -> 1076
      [] f = "B8G8R8A8Unorm" -> 1104
      [] f = "B8G8R8A8Srgb" -> 1109
      [] f = "BC1Unorm" -> 1152
      [] f = "BC1Srgb" -> 1157
      [] f = "BC2Unorm" -> 1168
      [] f = "BC2Srgb" -> 1173
      [] f = "BC3Unorm" -> 1184
      [] f = "BC3Srgb" -> 1189
      [] f = "BC4Unorm" -> 384
      [] f = "BC4Snorm" -> 389
      [] f = "BC5Unorm" -> 640
      [] f = "BC5Snorm" -> 645
      [] f = "BC6Ufloat" -> 1239
      [] f = "BC6Sfloat" -> 1240
      [] f = "BC7Unorm" -> 1248
      [] f = "BC7Srgb" -> 1253

\* unk2 asking about layer_count before depth.
unk2_layers_first(depth, layer_count) ==
    IF layer_count > 1 THEN 9
    ELSE IF depth > 1 THEN 8
    ELSE 4

unk2(depth, layer_count) ==
    IF depth > 1 THEN 8
    ELSE IF layer_count > 1 THEN 9
    ELSE 4

\* n as u32
len_as_u32(n) == from_le_bytes(to_le_bytes(n, U32Bytes))

\* Ok(NutexbFile), or the error of swizzle_data.
create_nutexb(image, nm) ==
    LET bpp == bytes_per_pixel(image.image_format)
        dim == block_dim(image.image_format)
        layer_mipmaps ==
            calculate_layer_mip_sizes(image.width, image.height, image.depth, dim,
                                      bpp, image.mipmap_count, image.layer_count)
        data == swizzle_data(image.width, image.height, image.depth, dim, bpp,
                             image.image_data, image.mipmap_count,
                             image.layer_count)
    IN  IF ~data.ok THEN data
        ELSE [ok |-> TRUE,
              file |->
                [data |-> data.bytes,
                 layer_mipmaps |-> layer_mipmaps,
                 footer |->
                   [string |-> nm,
                    width |-> image.width,
                    height |-> image.height,
                    depth |-> image.depth,
                    image_format |-> image.image_format,
                    unk2 |-> unk2(image.depth, image.layer_count),
                    mipmap_count |-> image.mipmap_count,
                    unk3 |-> 4096,
                    layer_count |-> image.layer_count,
                    data_size |-> len_as_u32(Len(data.bytes)),
                    version |-> <<1, 2>>]]]

create_nutexb_unswizzled(image, nm) ==
    LET bpp == bytes_per_pixel(image.image_format)
        dim == block_dim(image.image_format)
    IN  [data |-> image.image_data,
         layer_mipmaps |->
            calculate_layer_mip_sizes(image.width, image.height, image.depth, dim,
                                      bpp, 1, 1),
         footer |->
           [string |-> nm,
            width |-> image.width,
            height |-> image.height,
            depth |-> image.depth,
            image_format |-> image.image_format,
            unk2 |-> 2,
            mipmap_count |-> 1,
            unk3 |-> 0,
            layer_count |-> 1,
            data_size |-> len_as_u32(Len(image.image_data)),
            version |-> <<2, 0>>]]

\* NutexbFile::deswizzled_data: the footer's unk3 is not looked at.
deswizzled_data(f) ==
    deswizzle_surface(f.footer.width, f.footer.height, f.footer.depth, f.data,
                      block_dim(f.footer.image_format),
                      bytes_per_pixel(f.footer.image_format),
                      f.footer.mipmap_count, f.footer.layer_count)

\* Vec::resize: cut to new_len, or filled up to new_len with value.
resize(v, new_len, value) ==
    IF new_len <= Len(v) THEN SubSeq(v, 1, new_len)
    ELSE v \o [k \in 1..(new_len - Len(v)) |-> value]

\* optimize_size that takes every unk3 other than 0x1000 for 0.
optimize_size_unk3_normalised(f) ==
    LET new_len ==
            IF f.footer.unk3 = 4096
            THEN swizzled_surface_size(f.footer.width, f.footer.height,
                     f.footer.depth, block_dim(f.footer.image_format),
                     bytes_per_pixel(f.footer.image_format),
                     f.footer.mipmap_count, f.footer.layer_count)
            ELSE deswizzled_surface_size(f.footer.width, f.footer.height,
                     f.footer.depth, block_dim(f.footer.image_format),
                     bytes_per_pixel(f.footer.image_format),
                     f.footer.mipmap_count, f.footer.layer_count)
        data == resize(f.data, new_len, 0)
    IN  [f EXCEPT !.data = data, !.footer.data_size = len_as_u32(Len(data)),
                  !.footer.unk3 = IF @ = 4096 THEN 4096 ELSE 0]

\* NutexbFile::optimize_size
optimize_size(f) ==
    LET new_len ==
            IF f.footer.unk3 = 4096
            THEN swizzled_surface_size(f.footer.width, f.footer.height,
                     f.footer.depth, block_dim(f.footer.image_format),
                     bytes_per_pixel(f.footer.image_format),
                     f.footer.mipmap_count, f.footer.layer_count)
            ELSE deswizzled_surface_size(f.footer.width, f.footer.height,
                     f.footer.depth, block_dim(f.footer.image_format),
                     bytes_per_pixel(f.footer.image_format),
                     f.footer.mipmap_count, f.footer.layer_count)
        data == resize(f.data, new_len, 0)
    IN  [f EXCEPT !.data = data, !.footer.data_size = len_as_u32(Len(data))]

\* The footer's two magics: " XNT" and " XET".
MagicXNT == <<32, 88, 78, 84>>

MagicXET == <<32, 88, 69, 84>>

write_u32(n) == to_le_bytes(n, U32Bytes)

write_u16(n) == to_le_bytes(n, 2)

\* pad_size_to on writing: zeros up to size bytes; what is longer stays as
\* it is.
pad_size_to(bytes, size) ==
    IF Len(bytes) < size THEN bytes \o [k \in 1..(size - Len(bytes)) |-> 0]
    ELSE bytes

\* NullString: the bytes and a terminating zero.
write_null_string(s) == s \o <<0>>

RECURSIVE concat(_)
concat(seqs) == IF seqs = <<>> THEN <<>> ELSE Head(seqs) \o concat(Tail(seqs))

write_layer_mipmaps(mipmap_sizes) == pad_size_to(concat(mipmap_sizes), PadSize)

write_footer(footer) ==
    MagicXNT
    \o pad_size_to(write_null_string(footer.string), PadSize)
    \o write_u32(footer.width)
    \o write_u32(footer.height)
    \o write_u32(footer.depth)
    \o write_u32(format_code(footer.image_format))
    \o write_u32(footer.unk2)
    \o write_u32(footer.mipmap_count)
    \o write_u32(footer.unk3)
    \o write_u32(footer.layer_count)
    \o write_u32(footer.data_size)
    \o MagicXET
    \o write_u16(footer.version[1])
    \o write_u16(footer.version[2])

write_file(f) ==
    f.data
    \o concat([l \in 1..Len(f.layer_mipmaps) |->
                  write_layer_mipmaps(f.layer_mipmaps[l])])
    \o write_footer(f.footer)

-----------------------------------------------------------------------------
(* Reading: a cursor over the bytes of a stream.  A read gives Err(error) or
   the value read and the position after it. *)

Consumed(v, p) == [ok |-> TRUE, value |-> v, pos |-> p]

\* read_exact of n bytes at pos
read_bytes(bytes, pos, n) ==
    IF pos + n > Len(bytes) THEN Err("Io")
    ELSE Consumed(SubSeq(bytes, pos + 1, pos + n), pos + n)

\* count little-endian u32 read one after the other, as numbers
RECURSIVE read_u32s(_, _, _)
read_u32s(bytes, pos, count) ==
    IF count = 0 THEN Consumed(<<>>, pos)
    ELSE LET first == read_bytes(bytes, pos, U32Bytes)
         IN  IF ~first.ok THEN first
             ELSE LET rest == read_u32s(bytes, first.pos, count - 1)
                  IN  IF ~rest.ok THEN rest
                      ELSE Consumed(<<from_le_bytes(first.value)>> \o rest.value,
                                rest.pos)

\* NullString: the bytes up to the first zero, the zero consumed.
read_null_string(bytes, pos) ==
    LET zeros == {i \in (pos + 1)..Len(bytes) : bytes[i] = 0}
    IN  IF zeros = {} THEN Err("Io")
        ELSE LET z == CHOOSE i \in zeros : \A j \in zeros : i <= j
             IN  Consumed(SubSeq(bytes, pos + 1, z - 1), z)

\* pad_size_to on reading: a field that took fewer than size bytes is
\* skipped to size bytes after its start.
pad_size_to_pos(start, pos, size) ==
    IF pos - start < size THEN start + size ELSE pos

\* #[brw(repr(u32))]: the format with this code, if any
read_format(code) ==
    IF \E f \in NutexbFormat : format_code(f) = code
    THEN [ok |-> TRUE, value |-> CHOOSE f \in NutexbFormat : format_code(f) = code]
    ELSE Err("NoVariantMatch")

\* The fields of the footer after its string, from pos on; second_magic says
\* whether " XET" is looked for.
read_footer_fields(bytes, pos, string, second_magic) ==
    LET dims == read_u32s(bytes, pos, 3)
    IN  IF ~dims.ok THEN dims
        ELSE
    LET code == read_u32s(bytes, dims.pos, 1)
    IN  IF ~code.ok THEN code
        ELSE
    LET image_format == read_format(code.value[1])
    IN  IF ~image_format.ok THEN image_format
        ELSE
    LET rest == read_u32s(bytes, code.pos, 5)
    IN  IF ~rest.ok THEN rest
        ELSE
    LET magic == read_bytes(bytes, rest.pos, 4)
    IN  IF ~magic.ok THEN magic
        ELSE IF second_magic /\ magic.value # MagicXET THEN Err("BadMagic")
        ELSE
    LET v1 == read_bytes(bytes, magic.pos, 2)
    IN  IF ~v1.ok THEN v1
        ELSE
    LET v2 == read_bytes(bytes, v1.pos, 2)
    IN  IF ~v2.ok THEN v2
        ELSE Consumed([string |-> string,
                   width |-> dims.value[1],
                   height |-> dims.value[2],
                   depth |-> dims.value[3],
                   image_format |-> image_format.value,
                   unk2 |-> rest.value[1],
                   mipmap_count |-> rest.value[2],
                   unk3 |-> rest.value[3],
                   layer_count |-> rest.value[4],
                   data_size |-> rest.value[5],
                   version |-> <<from_le_bytes(v1.value), from_le_bytes(v2.value)>>],
                  v2.pos)

read_footer_magic(bytes, start, second_magic) ==
    LET magic == read_bytes(bytes, start, 4)
    IN  IF ~magic.ok THEN magic
        ELSE IF magic.value # MagicXNT THEN Err("BadMagic")
        ELSE LET string == read_null_string(bytes, magic.pos)
             IN  IF ~string.ok THEN string
                 ELSE read_footer_fields(bytes,
                          pad_size_to_pos(magic.pos, string.pos, PadSize),
                          string.value, second_magic)

\* read_footer that takes any four bytes for the second magic.
read_footer_second_magic_unchecked(bytes, start) ==
    read_footer_magic(bytes, start, FALSE)

\* NutexbFooter read at start
read_footer(bytes, start) == read_footer_magic(bytes, start, TRUE)

\* LayerMipmaps read at pos: mipmap_count u32, each kept as its four bytes,
\* then the padding.
RECURSIVE read_mipmap_sizes(_, _, _)
read_mipmap_sizes(bytes, pos, count) ==
    IF count = 0 THEN Consumed(<<>>, pos)
    ELSE LET first == read_bytes(bytes, pos, U32Bytes)
         IN  IF ~first.ok THEN first
             ELSE LET rest == read_mipmap_sizes(bytes, first.pos, count - 1)
                  IN  IF ~rest.ok THEN rest
                      ELSE Consumed(<<first.value>> \o rest.value, rest.pos)

read_layer_mipmaps(bytes, pos, mipmap_count) ==
    LET sizes == read_mipmap_sizes(bytes, pos, mipmap_count)
    IN  IF ~sizes.ok THEN sizes
        ELSE Consumed(sizes.value, pad_size_to_pos(pos, sizes.pos, PadSize))

\* Vec<LayerMipmaps> of count elements read at pos
RECURSIVE read_vec_layer_mipmaps(_, _, _, _)
read_vec_layer_mipmaps(bytes, pos, count, mipmap_count) ==
    IF count = 0 THEN Consumed(<<>>, pos)
    ELSE LET first == read_layer_mipmaps(bytes, pos, mipmap_count)
         IN  IF ~first.ok THEN first
             ELSE LET rest == read_vec_layer_mipmaps(bytes, first.pos, count - 1,
                                                     mipmap_count)
                  IN  IF ~rest.ok THEN rest
                      ELSE Consumed(<<first.value>> \o rest.value, rest.pos)

\* read_options.  data_size_from_footer: the data is as long as the footer's
\* data_size says instead of as long as the position found; seek_checked: a
\* seek to before the start of the stream is an error.
read_nutexb(bytes, data_size_from_footer, seek_checked) ==
    IF Len(bytes) - FOOTER_SIZE < 0 THEN Err("Io")
    ELSE
    LET footer == read_footer(bytes, Len(bytes) - FOOTER_SIZE)
    IN  IF ~footer.ok THEN footer
        ELSE
    LET current == footer.pos
                   - (FOOTER_SIZE + LAYER_MIPMAPS_SIZE * footer.value.layer_count)
    IN  IF seek_checked /\ current < 0 THEN Err("Io")
        ELSE
    LET data_size == IF data_size_from_footer THEN footer.value.data_size
                     ELSE Max(current, 0)
        layer_mipmaps ==
            read_vec_layer_mipmaps(bytes, Max(current, 0), footer.value.layer_count,
                                   footer.value.mipmap_count)
    IN  IF ~layer_mipmaps.ok THEN layer_mipmaps
        ELSE
    LET data == read_bytes(bytes, 0, data_size)
    IN  IF ~data.ok THEN data
        ELSE [ok |-> TRUE,
              file |-> [data |-> data.value,
                        layer_mipmaps |-> layer_mipmaps.value,
                        footer |-> footer.value]]

\* read_options taking the length of the data from the footer's data_size.
read_options_data_size_from_footer(bytes) == read_nutexb(bytes, TRUE, TRUE)

\* read_options whose seek back from the footer stops at the start of the
\* stream instead of failing.
read_options_seek_unchecked(bytes) == read_nutexb(bytes, FALSE, FALSE)

read_options(bytes) == read_nutexb(bytes, FALSE, TRUE)

-----------------------------------------------------------------------------
(* Scenario: a surface is made a NutexbFile, the file is written, and the
   bytes written, or other bytes, are read. *)

SurfaceFormats == {"R8G8B8A8Srgb", "BC1Unorm"}

\* width, height, depth
SurfaceShapes == {<<1, 1, 1>>, <<8, 8, 1>>, <<16, 8, 1>>, <<2, 2, 2>>}

\* A surface whose image data lacks the last `missing` bytes.
Surface(f, shape, mipmap_count, layer_count, missing) ==
    [width |-> shape[1], height |-> shape[2], depth |-> shape[3],
     image_data |->
        TestBytes(deswizzled_surface_size(shape[1], shape[2], shape[3],
                      block_dim(f), bytes_per_pixel(f), mipmap_count, layer_count)
                  - missing, 0),
     mipmap_count |-> mipmap_count,
     layer_count |-> layer_count,
     image_format |-> f]

\* The surfaces tried; among them one with one mip more than the PadSize
\* bytes of a layer's table have room for.
Surfaces ==
    {Surface(f, shape, m, l, missing) :
        f \in SurfaceFormats, shape \in SurfaceShapes,
        m \in 1..MaxMipCount, l \in 1..MaxLayerCount, missing \in {0, 1}}
    \union {Surface(f, <<1, 1, 1>>, (PadSize \div U32Bytes) + 1, 1, 0) :
                f \in SurfaceFormats}

\* Names by length: short, one less than the string's field, the field, one
\* more; and a name with a zero byte inside.
NameOfLen(n) == [i \in 1..n |-> 97 + (i % 26)]

Names ==
    {NameOfLen(n) : n \in {3, PadSize - 1, PadSize, PadSize + 1}}
    \union {<<97, 0, 98>>}

\* Where the fields of a footer start, from the footer's first byte.
FooterOffset ==
    [magic |-> 0, string |-> 4, image_format |-> 80, unk2 |-> 84,
     mipmap_count |-> 88, unk3 |-> 92, layer_count |-> 96, data_size |-> 100,
     second_magic |-> 104]

\* Streams a reader may be given instead of what was written: the end of it,
\* more in front of it, its last byte missing, one byte of its footer changed
\* (among them the flags unk2 and unk3, to values no encoder sets), a string
\* field without a zero.
OtherStreams(bytes) ==
    LET len == Len(bytes)
        foot == len - FOOTER_SIZE
        byte_at(o) == bytes[foot + o + 1]
        layer_count == byte_at(FooterOffset.layer_count)
        lengths == {0, FOOTER_SIZE - 1, FOOTER_SIZE,
                    FOOTER_SIZE + LAYER_MIPMAPS_SIZE * layer_count - 1,
                    FOOTER_SIZE + LAYER_MIPMAPS_SIZE * layer_count}
        patches == {<<FooterOffset.magic, 88>>,
                    <<FooterOffset.magic + 3, 0>>,
                    <<FooterOffset.second_magic, 0>>,
                    <<FooterOffset.second_magic + 3, 83>>,
                    <<FooterOffset.image_format, 1>>,
                    <<FooterOffset.unk2, 7>>,
                    <<FooterOffset.unk3, 5>>,
                    <<FooterOffset.unk3 + 1, 32>>,
                    <<FooterOffset.mipmap_count, 17>>,
                    <<FooterOffset.layer_count, 0>>,
                    <<FooterOffset.layer_count, layer_count + 1>>,
                    <<FooterOffset.data_size,
                      (byte_at(FooterOffset.data_size) + 1) % 256>>}
    IN  {SubSeq(bytes, len - n + 1, len) : n \in {k \in lengths : k <= len}}
        \union {<<7, 7, 7>> \o bytes, SubSeq(bytes, 1, len - 1)}
        \union {[bytes EXCEPT ![foot + p[1] + 1] = p[2]] : p \in patches}
        \union {[i \in 1..len |->
                    IF /\ i > foot + FooterOffset.string
                       /\ i <= foot + FooterOffset.string + PadSize
                    THEN 65 ELSE bytes[i]]}

Init ==
    /\ pc = "surface"
    /\ surface \in Surfaces
    /\ name \in Names
    /\ file = Idle /\ stream = Idle /\ result = Idle
    /\ mip_args = Idle /\ mip_tables = Idle
    /\ sw_args = Idle /\ linear = Idle /\ tiled = Idle /\ untiled = Idle

\* NutexbFile::from_surface
FromSurface ==
    /\ pc = "surface"
    /\ LET made == create_nutexb(surface, name)
       IN  IF made.ok
           THEN /\ file' = made.file
                /\ pc' = "file"
                /\ UNCHANGED result
           ELSE /\ result' = made
                /\ pc' = "failed"
                /\ UNCHANGED file
    /\ UNCHANGED <<mip_args, mip_tables, sw_args, linear, tiled, untiled,
                   surface, name, stream>>

\* NutexbFile::from_surface_unswizzled
FromSurfaceUnswizzled ==
    /\ pc = "surface"
    /\ file' = create_nutexb_unswizzled(surface, name)
    /\ pc' = "file"
    /\ UNCHANGED <<mip_args, mip_tables, sw_args, linear, tiled, untiled,
                   surface, name, stream, result>>

\* NutexbFile::write
Write ==
    /\ pc = "file"
    /\ stream' = write_file(file)
    /\ pc' = "written"
    /\ UNCHANGED <<mip_args, mip_tables, sw_args, linear, tiled, untiled,
                   surface, name, file, result>>

\* The reader is over other bytes than the ones written.
OtherStream ==
    /\ pc = "written"
    /\ stream' \in OtherStreams(stream)
    /\ stream' # stream
    /\ pc' = "other"
    /\ UNCHANGED <<mip_args, mip_tables, sw_args, linear, tiled, untiled,
                   surface, name, file, result>>

\* NutexbFile::read
Read ==
    /\ pc \in {"written", "other"}
    /\ result' = read_options(stream)
    /\ pc' = "read"
    /\ UNCHANGED <<mip_args, mip_tables, sw_args, linear, tiled, untiled,
                   surface, name, file, stream>>

\* NutexbFile::deswizzled_data, of a file just made
DeswizzledData ==
    /\ pc = "file"
    /\ untiled' = deswizzled_data(file)
    /\ pc' = "deswizzled"
    /\ UNCHANGED <<mip_args, mip_tables, sw_args, linear, tiled,
                   surface, name, file, stream, result>>

\* NutexbFile::optimize_size, of a file just made
OptimizeSize ==
    /\ pc = "file"
    /\ file' = optimize_size(file)
    /\ pc' = "optimized"
    /\ UNCHANGED <<mip_args, mip_tables, sw_args, linear, tiled, untiled,
                   surface, name, stream, result>>

\* NutexbFile::optimize_size, of a file just read
OptimizeSizeRead ==
    /\ pc = "read"
    /\ result.ok
    /\ result' = [result EXCEPT !.file = optimize_size(@)]
    /\ pc' = "read_optimized"
    /\ UNCHANGED <<mip_args, mip_tables, sw_args, linear, tiled, untiled,
                   surface, name, file, stream>>

Next ==
    \/ FromSurface
    \/ FromSurfaceUnswizzled
    \/ Write
    \/ OtherStream
    \/ Read
    \/ DeswizzledData
    \/ OptimizeSize
    \/ OptimizeSizeRead

Spec == Init /\ [][Next]_vars

-----------------------------------------------------------------------------
(* The container: claims C2, C3, C4, C5, C6, C10. *)

\* The stream read is the one Write wrote.
Written == stream = write_file(file)

\* The file is the one from_surface made.
Encoded == file.footer.unk3 = 4096

Decoded == pc = "read"

IsError(r) == ~r.ok /\ r.error \in {"Io", "BadMagic", "NoVariantMatch"}

\* The bytes of a stream at the offsets the footer's magics, layer_count and
\* data_size have when the footer is the last FOOTER_SIZE bytes.
FooterBytes(bytes, offset, n) ==
    SubSeq(bytes, Len(bytes) - FOOTER_SIZE + offset + 1,
           Len(bytes) - FOOTER_SIZE + offset + n)

\* C2: reading the bytes written for from_surface(surface, name) gives a file
\* with the data and, field for field, the footer of the file written.
C2_DecodeOfEncode ==
    (Decoded /\ Written /\ Encoded) =>
        /\ result.ok
        /\ result.file.data = file.data
        /\ result.file.footer = file.footer

\* The claim of C2 for names that fit the string's field with their
\* terminator and hold no zero byte, and surfaces whose mip sizes fit a
\* layer's table: there it holds.
C2_DecodeOfEncodeFieldsFit ==
    (/\ Decoded /\ Written /\ Encoded
     /\ Len(name) < PadSize
     /\ \A i \in DOMAIN name : name[i] # 0
     /\ surface.mipmap_count * U32Bytes <= PadSize) =>
        /\ result.ok
        /\ result.file.data = file.data
        /\ result.file.footer = file.footer

\* A from_surface file with a name of PadSize bytes, written and not read
\* back.
C2_WrittenNotRead ==
    /\ Decoded /\ Written /\ Encoded
    /\ Len(name) = PadSize
    /\ ~result.ok

\* C3: the data of a stream of length L that reads successfully is its bytes
\* [0, L - 112 - 64 * layer_count), whatever the footer's data_size.
C3_DataIsLeadingBytes ==
    (Decoded /\ result.ok) =>
        LET n == Len(stream) - FOOTER_SIZE
                 - LAYER_MIPMAPS_SIZE * result.file.footer.layer_count
        IN  /\ n >= 0
            /\ result.file.data = SubSeq(stream, 1, n)

\* A stream read successfully whose footer's data_size is less than the
\* length of the data read.
C3_DataSizeTooSmall ==
    /\ Decoded /\ result.ok
    /\ result.file.footer.data_size < Len(result.file.data)

\* The same with a data_size that is more than the length of the data.
C3_DataSizeTooBig ==
    /\ Decoded /\ result.ok
    /\ result.file.footer.data_size > Len(result.file.data)

\* C4: a stream shorter than 112 bytes, or shorter than 112 + 64 * the
\* layer_count of its footer, reads as an error value.
C4_ShortInputIsError ==
    Decoded =>
        /\ Len(stream) < FOOTER_SIZE => IsError(result)
        /\ (/\ Len(stream) >= FOOTER_SIZE
            /\ Len(stream) < FOOTER_SIZE + LAYER_MIPMAPS_SIZE
                   * from_le_bytes(FooterBytes(stream, FooterOffset.layer_count,
                                               U32Bytes)))
           => IsError(result)

\* A stream that holds a whole well-formed footer and not all of its layer
\* tables.
C4_TablesCutShort ==
    /\ Decoded
    /\ Len(stream) >= FOOTER_SIZE
    /\ Len(stream) < FOOTER_SIZE + LAYER_MIPMAPS_SIZE
           * from_le_bytes(FooterBytes(stream, FooterOffset.layer_count, U32Bytes))
    /\ read_footer(stream, Len(stream) - FOOTER_SIZE).ok
    /\ result = Err("Io")

\* A stream shorter than a footer.
C4_FooterCutShort ==
    /\ Decoded
    /\ Len(stream) = FOOTER_SIZE - 1
    /\ result = Err("Io")

\* C5: a stream reads as a file only if its 4 bytes at end-112 are " XNT" and
\* its 4 bytes at end-8 are " XET"; otherwise it reads as an error.
C5_MagicMismatchIsError ==
    Decoded =>
        \/ IsError(result)
        \/ /\ result.ok
           /\ Len(stream) >= FOOTER_SIZE
           /\ FooterBytes(stream, FooterOffset.magic, 4) = MagicXNT
           /\ FooterBytes(stream, FooterOffset.second_magic, 4) = MagicXET

\* A stream whose first magic is right and whose second is not.
C5_SecondMagicWrong ==
    /\ Decoded
    /\ Len(stream) >= FOOTER_SIZE
    /\ FooterBytes(stream, FooterOffset.magic, 4) = MagicXNT
    /\ FooterBytes(stream, FooterOffset.second_magic, 4) # MagicXET
    /\ result = Err("BadMagic")

\* A stream whose first magic is wrong and whose second is right.
C5_FirstMagicWrong ==
    /\ Decoded
    /\ Len(stream) >= FOOTER_SIZE
    /\ FooterBytes(stream, FooterOffset.magic, 4) # MagicXNT
    /\ FooterBytes(stream, FooterOffset.second_magic, 4) = MagicXET
    /\ result = Err("BadMagic")

\* C6: a name of 63 bytes comes back unchanged from writing and reading; with
\* a name of 64 bytes or more the footer written is still 112 bytes and the
\* stream reads as a file.
C6_NameFitsOrIsCut ==
    (Decoded /\ Written) =>
        /\ Len(name) = PadSize - 1 =>
              (result.ok /\ result.file.footer.string = name)
        /\ Len(name) >= PadSize =>
              (Len(write_footer(file.footer)) = FOOTER_SIZE /\ result.ok)

\* The first half of C6 alone: it holds.
C6_Name63RoundTrips ==
    (Decoded /\ Written /\ Len(name) = PadSize - 1) =>
        (result.ok /\ result.file.footer.string = name)

\* A name of 64 bytes: the footer written is 113 bytes and the stream does not
\* read.
C6_FooterOneByteLonger ==
    /\ Decoded /\ Written
    /\ Len(name) = PadSize
    /\ Len(write_footer(file.footer)) = FOOTER_SIZE + 1
    /\ result = Err("BadMagic")

\* C10: from_surface makes layer_count tables, each of mipmap_count entries,
\* all tables equal.
C10_TablePerLayer ==
    (pc = "file" /\ Encoded) =>
        /\ Len(file.layer_mipmaps) = surface.layer_count
        /\ \A l \in DOMAIN file.layer_mipmaps :
              /\ Len(file.layer_mipmaps[l]) = surface.mipmap_count
              /\ file.layer_mipmaps[l] = file.layer_mipmaps[1]

\* A from_surface file of 17 mips, written and read back: the data read ends
\* with the first four bytes of the layer's table.
C2_TableOverrunsIntoData ==
    /\ Decoded /\ Written /\ Encoded
    /\ surface.mipmap_count * U32Bytes > PadSize
    /\ Len(name) < PadSize
    /\ result.ok
    /\ result.file.data = file.data \o file.layer_mipmaps[1][1]

\* A file of more than one layer and more than one mip.
C10_SeveralLayersAndMips ==
    /\ pc = "file" /\ Encoded
    /\ surface.layer_count > 1 /\ surface.mipmap_count > 1
    /\ Len(file.layer_mipmaps) > 1
    /\ Len(file.layer_mipmaps[1]) > 1

-----------------------------------------------------------------------------
(* Lengths as usize: the length of the data of a file for surfaces too large
   to hold as sequences. *)

RECURSIVE add_carry(_, _, _)
add_carry(a, b, carry) ==
    IF a = <<>> THEN <<>>
    ELSE LET t == a[1] + b[1] + carry
         IN  <<t % 256>> \o add_carry(Tail(a), Tail(b), t \div 256)

\* usize addition, wrapping at 2^64.
usize_add(a, b) == add_carry(a, b, 0)

\* The bytes of one slice, linear or tiled, as usize.
slice_size_usize(sl, dim, bpp, tiled_sizes) ==
    LET w == div_round_up(sl.width, dim.width)
        h == div_round_up(sl.height, dim.height)
    IN  IF tiled_sizes
        THEN usize_mul(usize_of(swizzle_pitch(w, bpp, FALSE, 0)),
                       round_up(h, Pow2(sl.block_height_log_2) * 8))
        ELSE usize_mul(usize_of(w * bpp), h)

RECURSIVE sum_sizes_usize(_, _, _, _)
sum_sizes_usize(slices, dim, bpp, tiled_sizes) ==
    IF slices = <<>> THEN usize_of(0)
    ELSE usize_add(slice_size_usize(Head(slices), dim, bpp, tiled_sizes),
                   sum_sizes_usize(Tail(slices), dim, bpp, tiled_sizes))

swizzled_surface_size_usize(width, height, depth, dim, bpp, mipmap_count, layer_count) ==
    sum_sizes_usize(surface_slices(width, height, depth, dim, mipmap_count, layer_count), dim, bpp, TRUE)

deswizzled_surface_size_usize(width, height, depth, dim, bpp, mipmap_count, layer_count) ==
    sum_sizes_usize(surface_slices(width, height, depth, dim, mipmap_count, layer_count), dim, bpp, FALSE)

\* create_nutexb, the data by its length only: data.len() and the footer's
\* data_size, data.len() as u32.
create_nutexb_sizes(image) ==
    LET len == swizzled_surface_size_usize(image.width, image.height, image.depth,
                   block_dim(image.image_format),
                   bytes_per_pixel(image.image_format),
                   image.mip_count, image.layer_count)
    IN  [data_len |-> len, data_size |-> as_u32(len), unk3 |-> 4096]

\* optimize_size, the data by its length only: the new data.len() and the
\* footer's data_size, data.len() as u32.
optimize_size_sizes(footer) ==
    LET new_len ==
            IF footer.unk3 = 4096
            THEN swizzled_surface_size_usize(footer.width, footer.height,
                     footer.depth, block_dim(footer.image_format),
                     bytes_per_pixel(footer.image_format),
                     footer.mip_count, footer.layer_count)
            ELSE deswizzled_surface_size_usize(footer.width, footer.height,
                     footer.depth, block_dim(footer.image_format),
                     bytes_per_pixel(footer.image_format),
                     footer.mip_count, footer.layer_count)
    IN  [data_len |-> new_len, data_size |-> as_u32(new_len),
         unk3 |-> footer.unk3]

-----------------------------------------------------------------------------
(* Scenario: from_surface on a surface of any size, or optimize_size on a file
   whose footer holds any size, the data by its length. *)

InitSize ==
    /\ pc = "dims"
    /\ mip_args \in MipArgs
    /\ mip_tables = Idle
    /\ sw_args = Idle /\ linear = Idle /\ tiled = Idle /\ untiled = Idle
    /\ surface = Idle /\ name = Idle /\ file = Idle /\ stream = Idle
    /\ result = Idle

FromSurfaceSize ==
    /\ pc = "dims"
    /\ result' = create_nutexb_sizes(mip_args)
    /\ pc' = "made"
    /\ UNCHANGED <<mip_args, mip_tables, sw_args, linear, tiled, untiled,
                   surface, name, file, stream>>

OptimizeSizeSize ==
    /\ pc = "dims"
    /\ \E unk3 \in {0, 4096} :
          result' = optimize_size_sizes(
                        [width |-> mip_args.width, height |-> mip_args.height,
                         depth |-> mip_args.depth,
                         image_format |-> mip_args.image_format,
                         mip_count |-> mip_args.mip_count,
                         layer_count |-> mip_args.layer_count,
                         unk3 |-> unk3])
    /\ pc' = "resized"
    /\ UNCHANGED <<mip_args, mip_tables, sw_args, linear, tiled, untiled,
                   surface, name, file, stream>>


-----------------------------------------------------------------------------
(* The file made by from_surface: claims C11, C12. *)

\* C11 (the data_size of the claim, for surfaces of any size): the footer's
\* data_size is the length of the data.
C11_DataSizeIsDataLength ==
    pc = "made" =>
        ZeroExtend(result.data_size, UsizeBytes) = result.data_len

\* A file whose data is 2^32 bytes long and whose data_size is 0.
C11_DataSizeZero ==
    /\ pc = "made"
    /\ result.data_len = <<0, 0, 0, 0, 1, 0, 0, 0>>
    /\ result.data_size = <<0, 0, 0, 0>>

\* The whole of C11 for the surfaces made and written as sequences of bytes:
\* there it holds.
C11_FooterOfEncode ==
    (pc = "file" /\ Encoded) =>
        /\ file.footer.data_size = Len(file.data)
        /\ file.footer.unk3 = 4096
        /\ file.footer.version = <<1, 2>>
        /\ file.footer.width = surface.width
        /\ file.footer.height = surface.height
        /\ file.footer.depth = surface.depth
        /\ file.footer.image_format = surface.image_format
        /\ file.footer.mipmap_count = surface.mipmap_count
        /\ file.footer.layer_count = surface.layer_count

\* C12: from_surface sets unk2 from depth and layer_count only: 8 when
\* depth > 1 (also when layer_count > 1), otherwise 9 when layer_count > 1,
\* otherwise 4.
C12_FlagFromDepthAndLayers ==
    (pc = "file" /\ Encoded) =>
        /\ surface.depth > 1 => file.footer.unk2 = 8
        /\ (surface.depth <= 1 /\ surface.layer_count > 1) => file.footer.unk2 = 9
        /\ (surface.depth <= 1 /\ surface.layer_count <= 1) => file.footer.unk2 = 4

\* A file of a surface with depth > 1 and layer_count > 1: unk2 is 8.
C12_DepthRuleWins ==
    /\ pc = "file" /\ Encoded
    /\ surface.depth > 1 /\ surface.layer_count > 1
    /\ file.footer.unk2 = 8

-----------------------------------------------------------------------------
(* The file made by from_surface_unswizzled: claim C13. *)

\* The file is the one from_surface_unswizzled made.
Unswizzled == file.footer.unk3 = 0

\* C13: from_surface_unswizzled keeps the surface's bytes as the data, with
\* mipmap_count 1, layer_count 1 and unk3 0, and reading the bytes written
\* for the file gives those bytes as the data.
C13_UnswizzledVerbatim ==
    /\ (pc = "file" /\ Unswizzled) =>
          /\ file.data = surface.image_data
          /\ file.footer.mipmap_count = 1
          /\ file.footer.layer_count = 1
    /\ (Decoded /\ Written /\ Unswizzled) =>
          /\ result.ok
          /\ result.file.data = surface.image_data

\* The claim of C13 for names that fit the string's field with their
\* terminator: there it holds.
C13_UnswizzledVerbatimNameFits ==
    /\ (pc = "file" /\ Unswizzled) =>
          /\ file.data = surface.image_data
          /\ file.footer.mipmap_count = 1
          /\ file.footer.layer_count = 1
    /\ (Decoded /\ Written /\ Unswizzled /\ Len(name) < PadSize) =>
          /\ result.ok
          /\ result.file.data = surface.image_data

\* A from_surface_unswizzled file with a name of PadSize bytes, written and
\* not read back.
C13_UnswizzledNotRead ==
    /\ Decoded /\ Written /\ Unswizzled
    /\ Len(name) = PadSize
    /\ result = Err("BadMagic")

-----------------------------------------------------------------------------
(* deswizzled_data: claim C14. *)

\* C14: of a file whose unk3 is 0, deswizzled_data is a copy of the data; of a
\* file whose unk3 is 0x1000 it is the deswizzled data.
C14_LinearIsPassedThrough ==
    pc = "deswizzled" =>
        /\ Unswizzled => (untiled.ok /\ untiled.bytes = file.data)
        /\ Encoded => (untiled.ok /\ untiled.bytes = surface.image_data)

\* The second half of C14 alone: it holds.
C14_TiledIsDeswizzled ==
    (pc = "deswizzled" /\ Encoded) =>
        (untiled.ok /\ untiled.bytes = surface.image_data)

\* A file whose unk3 is 0 and whose linear data deswizzle_surface refuses as
\* too short to be tiled data.
C14_LinearRejected ==
    /\ pc = "deswizzled"
    /\ Unswizzled
    /\ file.data = surface.image_data
    /\ untiled = Err("NotEnoughData")

\* A file whose unk3 is 0 and whose linear data is as long as tiled data
\* would be: deswizzled_data gives other bytes than the data.
C14_LinearDeswizzledAnyway ==
    /\ pc = "deswizzled"
    /\ Unswizzled
    /\ untiled.ok
    /\ untiled.bytes # file.data

-----------------------------------------------------------------------------
(* optimize_size: claims C15, C16. *)

\* The length the footer of a file implies: tiled when unk3 is 0x1000, linear
\* otherwise.
ExpectedLen(f) ==
    IF f.footer.unk3 = 4096
    THEN swizzled_surface_size(f.footer.width, f.footer.height, f.footer.depth,
             block_dim(f.footer.image_format),
             bytes_per_pixel(f.footer.image_format),
             f.footer.mipmap_count, f.footer.layer_count)
    ELSE deswizzled_surface_size(f.footer.width, f.footer.height, f.footer.depth,
             block_dim(f.footer.image_format),
             bytes_per_pixel(f.footer.image_format),
             f.footer.mipmap_count, f.footer.layer_count)

\* C15 (the data_size of the claim, for footers of any size): after
\* optimize_size the footer's data_size is the length of the data.
C15_DataSizeIsNewLength ==
    pc = "resized" =>
        ZeroExtend(result.data_size, UsizeBytes) = result.data_len

\* A file resized to 2^32 bytes of linear data whose data_size is 0.
C15_ResizedDataSizeZero ==
    /\ pc = "resized"
    /\ result.unk3 = 0
    /\ result.data_len = <<0, 0, 0, 0, 1, 0, 0, 0>>
    /\ result.data_size = <<0, 0, 0, 0>>

\* The whole of C15 for the files held byte for byte: optimize_size makes the
\* data as long as the footer implies and data_size that length, keeps the
\* bytes up to the shorter of the two lengths and adds zeros only.  There it
\* holds.
C15_ResizedToExpected ==
    [][(pc = "file" /\ pc' = "optimized") =>
          LET old == file.data
              new == file'.data
              kept == Min(Len(old), Len(new))
          IN  /\ Len(new) = ExpectedLen(file)
              /\ file'.footer.data_size = Len(new)
              /\ SubSeq(new, 1, kept) = SubSeq(old, 1, kept)
              /\ \A i \in (Len(old) + 1)..Len(new) : new[i] = 0]_vars

\* A file optimize_size made longer, the bytes added being zero.
C15_ZerosAdded ==
    /\ pc = "optimized"
    /\ Unswizzled
    /\ Len(file.data) = Len(surface.image_data) + 1
    /\ file.data[Len(file.data)] = 0
    /\ file.footer.data_size = Len(file.data)

\* C16: optimize_size on a file from_surface or from_surface_unswizzled has
\* just made changes nothing.
C16_OptimizeChangesNothing ==
    pc = "optimized" =>
        /\ Encoded => file = create_nutexb(surface, name).file
        /\ Unswizzled => file = create_nutexb_unswizzled(surface, name)

\* The claim of C16 for from_surface alone: there it holds.
C16_OptimizeKeepsSwizzled ==
    (pc = "optimized" /\ Encoded) => file = create_nutexb(surface, name).file

\* A from_surface_unswizzled file of a surface with more than one mip:
\* optimize_size has cut the data down to the first mip of the first layer.
C16_MipsCutOff ==
    /\ pc = "optimized"
    /\ Unswizzled
    /\ surface.mipmap_count > 1
    /\ Len(surface.image_data)
         = deswizzled_surface_size(surface.width, surface.height, surface.depth,
               block_dim(surface.image_format),
               bytes_per_pixel(surface.image_format),
               surface.mipmap_count, surface.layer_count)
    /\ Len(file.data) < Len(surface.image_data)
    /\ file.footer.data_size < Len(surface.image_data)

-----------------------------------------------------------------------------
(* Buffers shorter than the surface needs: claim C17. *)

\* Result::unwrap: the value, or a panic.
unwrap(r) == IF r.ok THEN Buffer(r.bytes) ELSE Panic

\* tegra_swizzle::swizzle_block_linear: one surface of width x height units,
\* refused when the source is shorter than its units.
swizzle_block_linear(width, height, depth, source, block_height_gobs, bpp) ==
    IF Len(source) < width * height * depth * bpp THEN Err("NotEnoughData")
    ELSE Ok(_swizzle(width, height, depth, 1, 1, 1, FALSE, bpp, 0,
                     Log2(block_height_gobs), source, TRUE).bytes)

\* swizzle_mipmaps_to_data from mip i on, data being what the earlier mips
\* left.
RECURSIVE swizzle_mipmaps_from(_, _, _, _, _, _, _, _)
swizzle_mipmaps_from(i, data, width, height, blk_width, blk_height, bpp, mipmaps) ==
    IF i >= Len(mipmaps) THEN Buffer(data)
    ELSE LET mip_width == div_round_up(shr(width, i), blk_width)
             mip_height == div_round_up(shr(height, i), blk_height)
             base == block_height_mip0(div_round_up(height, blk_height))
             swizzled_mipmap ==
                 unwrap(swizzle_block_linear(mip_width, mip_height, 1,
                            mipmaps[i + 1], mip_block_height(mip_height, base),
                            bpp))
         IN  IF ~swizzled_mipmap.ok THEN Panic
             ELSE swizzle_mipmaps_from(i + 1, data \o swizzled_mipmap.bytes,
                                       width, height, blk_width, blk_height, bpp,
                                       mipmaps)

swizzle_mipmaps_to_data(width, height, blk_width, blk_height, bpp, mipmaps) ==
    swizzle_mipmaps_from(0, <<>>, width, height, blk_width, blk_height, bpp, mipmaps)

\* The bytes by which a buffer is short.
MaxMissing == 2

ShortFormats == {"R8Unorm", "R8G8B8A8Unorm", "R32G32B32A32Float", "BC1Unorm"}

ShortArgs ==
    [image_format : ShortFormats, width : 1..MaxWidth, height : 1..MaxHeight,
     depth : {1}, mipmap_count : 1..MaxMipCount, layer_count : 1..MaxLayerCount,
     missing : 1..MaxMissing]

\* A buffer `missing` bytes shorter than size.
ShortBytes(size, missing) == TestBytes(Max(size - missing, 0), 0)

\* The base mip of the arguments in units, and its block height as a power of
\* two.
BaseUnits(a) ==
    [width |-> div_round_up(a.width, block_width(a.image_format)),
     height |-> div_round_up(a.height, block_height(a.image_format)),
     block_height_log_2 |->
         Log2(block_height_mip0(div_round_up(a.height,
                                             block_height(a.image_format))))]

InitShort ==
    /\ pc = "short"
    /\ sw_args \in ShortArgs
    /\ linear = Idle /\ tiled = Idle /\ untiled = Idle
    /\ mip_args = Idle /\ mip_tables = Idle
    /\ surface = Idle /\ name = Idle /\ file = Idle /\ stream = Idle
    /\ result = Idle

\* swizzle_data with a linear buffer that is short
SwizzleDataShort ==
    /\ pc = "short"
    /\ LET dim == block_dim(sw_args.image_format)
           bpp == bytes_per_pixel(sw_args.image_format)
           size == deswizzled_surface_size(sw_args.width, sw_args.height,
                       sw_args.depth, dim, bpp, sw_args.mipmap_count,
                       sw_args.layer_count)
       IN  result' = swizzle_data(sw_args.width, sw_args.height, sw_args.depth,
                         dim, bpp, ShortBytes(size, sw_args.missing),
                         sw_args.mipmap_count, sw_args.layer_count)
    /\ pc' = "swizzle_data"
    /\ UNCHANGED <<mip_args, mip_tables, sw_args, linear, tiled, untiled,
                   surface, name, file, stream>>

\* deswizzle_data with a tiled buffer that is short
DeswizzleDataShort ==
    /\ pc = "short"
    /\ LET dim == block_dim(sw_args.image_format)
           bpp == bytes_per_pixel(sw_args.image_format)
           size == swizzled_surface_size(sw_args.width, sw_args.height,
                       sw_args.depth, dim, bpp, sw_args.mipmap_count,
                       sw_args.layer_count)
       IN  result' = deswizzle_data(sw_args.width, sw_args.height, sw_args.depth,
                         dim, bpp, ShortBytes(size, sw_args.missing),
                         sw_args.mipmap_count, sw_args.layer_count)
    /\ pc' = "deswizzle_data"
    /\ UNCHANGED <<mip_args, mip_tables, sw_args, linear, tiled, untiled,
                   surface, name, file, stream>>

\* swizzle of tegra_swizzle.rs on the base mip, with a linear buffer that is
\* short
SwizzleShort ==
    /\ pc = "short"
    /\ LET f == sw_args.image_format
           base == BaseUnits(sw_args)
           size == base.width * base.height * bytes_per_pixel(f)
       IN  result' = swizzle(sw_args.width, sw_args.height, sw_args.depth,
                         block_width(f), block_height(f), block_depth(f), FALSE,
                         bytes_per_pixel(f), 0, base.block_height_log_2,
                         ShortBytes(size, sw_args.missing))
    /\ pc' = "swizzle"
    /\ UNCHANGED <<mip_args, mip_tables, sw_args, linear, tiled, untiled,
                   surface, name, file, stream>>

\* deswizzle of tegra_swizzle.rs on the base mip, with a tiled buffer that is
\* short
DeswizzleShort ==
    /\ pc = "short"
    /\ LET f == sw_args.image_format
           base == BaseUnits(sw_args)
           size == swizzle_surf_size(base.width, base.height, bytes_per_pixel(f),
                                     FALSE, 0, Pow2(base.block_height_log_2))
       IN  result' = deswizzle(sw_args.width, sw_args.height, sw_args.depth,
                         block_width(f), block_height(f), block_depth(f), FALSE,
                         bytes_per_pixel(f), 0, base.block_height_log_2,
                         ShortBytes(size, sw_args.missing))
    /\ pc' = "deswizzle"
    /\ UNCHANGED <<mip_args, mip_tables, sw_args, linear, tiled, untiled,
                   surface, name, file, stream>>

\* swizzle_mipmaps_to_data with a last mip that is short; no mip is smaller
\* than a pixel.
SwizzleMipmapsToDataShort ==
    /\ pc = "short"
    /\ shr(sw_args.width, sw_args.mipmap_count - 1) >= 1
    /\ shr(sw_args.height, sw_args.mipmap_count - 1) >= 1
    /\ LET f == sw_args.image_format
           mip_size(i) ==
               div_round_up(shr(sw_args.width, i), block_width(f))
               * div_round_up(shr(sw_args.height, i), block_height(f))
               * bytes_per_pixel(f)
           mipmaps ==
               [m \in 1..sw_args.mipmap_count |->
                   IF m = sw_args.mipmap_count
                   THEN ShortBytes(mip_size(m - 1), sw_args.missing)
                   ELSE TestBytes(mip_size(m - 1), 0)]
       IN  result' = swizzle_mipmaps_to_data(sw_args.width, sw_args.height,
                         block_width(f), block_height(f), bytes_per_pixel(f),
                         mipmaps)
    /\ pc' = "swizzle_mipmaps_to_data"
    /\ UNCHANGED <<mip_args, mip_tables, sw_args, linear, tiled, untiled,
                   surface, name, file, stream>>

NextShort ==
    \/ SwizzleDataShort
    \/ DeswizzleDataShort
    \/ SwizzleShort
    \/ DeswizzleShort
    \/ SwizzleMipmapsToDataShort

SpecShort == InitShort /\ [][NextShort]_vars

\* C17: swizzle of a linear buffer shorter than the surface's bytes, and
\* deswizzle of a tiled buffer shorter than the surface's padded bytes, give an
\* error value: no panic and no buffer.
C17_ShortBufferIsError ==
    pc \in {"swizzle_data", "deswizzle_data", "swizzle", "deswizzle",
            "swizzle_mipmaps_to_data"} =>
        result = Err("NotEnoughData")

\* The claim of C17 for swizzle_data and deswizzle_data alone: there it holds.
C17_SurfaceShortBufferIsError ==
    pc \in {"swizzle_data", "deswizzle_data"} => result = Err("NotEnoughData")

\* swizzle of tegra_swizzle.rs panics on a short linear buffer.
C17_SwizzlePanics ==
    /\ pc = "swizzle"
    /\ result = Panic

\* deswizzle of tegra_swizzle.rs returns a buffer for a tiled buffer that is
\* short by padding only.
C17_DeswizzleOfShortBuffer ==
    /\ pc = "deswizzle"
    /\ result.ok

\* deswizzle of tegra_swizzle.rs panics on a short tiled buffer.
C17_DeswizzlePanics ==
    /\ pc = "deswizzle"
    /\ result = Panic

\* swizzle_mipmaps_to_data panics on a short mip.
C17_SwizzleMipmapsPanics ==
    /\ pc = "swizzle_mipmaps_to_data"
    /\ result = Panic


-----------------------------------------------------------------------------
(* Scenario: swizzle of tegra_swizzle.rs on the base mip of a surface, and
   deswizzle on what it returned, with the same parameters. *)

\* tile_mode: 0 is block linear (tiled), 1 is pitch linear.
TileModes == {0, 1}

BlockArgs ==
    [image_format : NutexbFormat, width : 1..MaxWidth, height : 1..MaxHeight,
     depth : {1}, tile_mode : TileModes, round_pitch : BOOLEAN]

InitBlock ==
    /\ pc = "plain"
    /\ sw_args \in BlockArgs
    /\ linear = TestBytes(BaseUnits(sw_args).width * BaseUnits(sw_args).height
                          * bytes_per_pixel(sw_args.image_format), 0)
    /\ tiled = Idle /\ untiled = Idle
    /\ mip_args = Idle /\ mip_tables = Idle
    /\ surface = Idle /\ name = Idle /\ file = Idle /\ stream = Idle
    /\ result = Idle

Swizzle ==
    /\ pc = "plain"
    /\ LET f == sw_args.image_format
       IN  tiled' = swizzle(sw_args.width, sw_args.height, sw_args.depth,
                        block_width(f), block_height(f), block_depth(f),
                        sw_args.round_pitch, bytes_per_pixel(f),
                        sw_args.tile_mode,
                        BaseUnits(sw_args).block_height_log_2, linear)
    /\ pc' = "swizzled"
    /\ UNCHANGED <<mip_args, mip_tables, sw_args, linear, untiled,
                   surface, name, file, stream, result>>

Deswizzle ==
    /\ pc = "swizzled"
    /\ tiled.ok
    /\ LET f == sw_args.image_format
       IN  untiled' = deswizzle(sw_args.width, sw_args.height, sw_args.depth,
                          block_width(f), block_height(f), block_depth(f),
                          sw_args.round_pitch, bytes_per_pixel(f),
                          sw_args.tile_mode,
                          BaseUnits(sw_args).block_height_log_2, tiled.bytes)
    /\ pc' = "deswizzled"
    /\ UNCHANGED <<mip_args, mip_tables, sw_args, linear, tiled,
                   surface, name, file, stream, result>>

NextBlock == Swizzle \/ Deswizzle

SpecBlock == InitBlock /\ [][NextBlock]_vars

\* 4-bytes-per-pixel RGBA at 4x4x1, tiled: scenario A.
ScenarioA ==
    /\ sw_args.image_format = "R8G8B8A8Unorm"
    /\ sw_args.width = 4 /\ sw_args.height = 4 /\ sw_args.depth = 1
    /\ sw_args.tile_mode = 0

\* C18: the buffer deswizzle returns has exactly the linear byte length of the
\* surface, with no tile padding.
C18_DeswizzledLengthIsLinear ==
    pc = "deswizzled" =>
        /\ untiled.ok
        /\ Len(untiled.bytes) = Len(linear)

\* C18: what the code does: the buffer deswizzle returns is as long as the
\* tiled buffer, its first bytes being the linear bytes.
C18_DeswizzledLengthIsTiled ==
    pc = "deswizzled" =>
        /\ untiled.ok
        /\ Len(untiled.bytes) = Len(tiled.bytes)
        /\ Len(untiled.bytes) >= Len(linear)
        /\ SubSeq(untiled.bytes, 1, Len(linear)) = linear

\* C18: scenario A deswizzled: 512 bytes come back for the 64 of the surface.
C18_ScenarioAPadded ==
    /\ pc = "deswizzled"
    /\ ScenarioA
    /\ Len(linear) = 64
    /\ Len(untiled.bytes) = 512

\* C18: deswizzle_data and deswizzled_data, which go through the external
\* crate, return exactly the linear byte length.
C18_SurfaceDeswizzledLengthIsLinear ==
    pc = "untiled" =>
        /\ untiled.ok
        /\ Len(untiled.bytes) = Len(linear)


-----------------------------------------------------------------------------
(* swizzle of tegra_swizzle.rs on a surface of any size, the buffers by their
   lengths. width, height, pitch and surf_size are u32. *)

\* Overflow checks on (a multiplication that overflows panics) or off (it
\* wraps).
Builds == {"debug", "release"}

\* The length of what swizzle returns in block-linear mode, and the length of
\* the linear buffer it reads: surf_size = pitch * round_up(height,
\* block_height * 8), then vec![0u8; surf_size].
swizzle_sizes(width_px, height_px, blk_width, blk_height, bpp, block_height_log_2, build) ==
    LET width == div_round_up(width_px, blk_width)
        height == div_round_up(height_px, blk_height)
        pitch == round_up(width * bpp, 64)
        rows == round_up(height, Pow2(block_height_log_2) * 8)
        product == usize_mul(usize_of(pitch), rows)
        fits == ZeroExtend(as_u32(product), UsizeBytes) = product
    IN  IF ~fits /\ build = "debug" THEN Panic
        ELSE [ok |-> TRUE, fits |-> fits,
              len |-> ZeroExtend(as_u32(product), UsizeBytes),
              linear_len |-> usize_mul(usize_of(width * bpp), height)]

SwizzleSize ==
    /\ pc = "dims"
    /\ \E build \in Builds :
         LET f == mip_args.image_format
         IN  result' = swizzle_sizes(mip_args.width, mip_args.height,
                           block_width(f), block_height(f), bytes_per_pixel(f),
                           BaseUnits(mip_args).block_height_log_2, build)
    /\ pc' = "swizzled_size"
    /\ UNCHANGED <<mip_args, mip_tables, sw_args, linear, tiled, untiled,
                   surface, name, file, stream>>

-----------------------------------------------------------------------------
(* get_addr_block_linear on a surface of any size, the address as a u32. *)

\* The address as the code's u32 arithmetic gives it.  The quotients and the
\* terms within a block of GOBs stay small; the product for the blocks above
\* and the sum are the ones that can pass 2^32: there the multiplication or
\* the addition panics, or the address wraps.
get_addr_block_linear_u32(x, y, width, bpp, block_height_gobs, build) ==
    LET image_width_in_gobs == div_round_up(width * bpp, 64)
        blocks_above ==
            usize_mul(usize_mul(usize_of(y \div (8 * block_height_gobs)),
                                GobBytes * block_height_gobs),
                      image_width_in_gobs)
        xb == x * bpp
        within_block ==
            (xb \div 64) * GobBytes * block_height_gobs
            + ((y % (8 * block_height_gobs)) \div 8) * GobBytes
            + ((xb % 64) \div 32) * 256
            + ((y % 8) \div 2) * 64
            + ((xb % 32) \div 16) * 32
            + (y % 2) * 16
            + (xb % 16)
        address == usize_add(blocks_above, usize_of(within_block))
        fits == ZeroExtend(as_u32(address), UsizeBytes) = address
    IN  IF ~fits /\ build = "debug" THEN Panic
        ELSE [ok |-> TRUE, fits |-> fits, x |-> x, y |-> y, bpp |-> bpp,
              pos |-> ZeroExtend(as_u32(address), UsizeBytes)]

\* _swizzle calls get_addr_block_linear for a position of the surface: here a
\* corner, or a quarter of the height down.
GetAddrBlockLinearSize ==
    /\ pc = "dims"
    /\ LET base == BaseUnits(mip_args)
       IN  \E build \in Builds, x \in {0, base.width - 1},
              y \in {0, base.height \div 4, base.height - 1} :
             result' = get_addr_block_linear_u32(x, y, base.width,
                           bytes_per_pixel(mip_args.image_format),
                           Pow2(base.block_height_log_2), build)
    /\ pc' = "address_u32"
    /\ UNCHANGED <<mip_args, mip_tables, sw_args, linear, tiled, untiled,
                   surface, name, file, stream>>

NextSize ==
    \/ FromSurfaceSize
    \/ OptimizeSizeSize
    \/ SwizzleSize
    \/ GetAddrBlockLinearSize

SpecSize == InitSize /\ [][NextSize]_vars

\* A length that is a multiple of 512.
WholeGobs(len) == len[1] = 0 /\ len[2] % 2 = 0

\* C19: the tiled buffer swizzle returns is at least as long as the linear
\* buffer of the surface, and a whole number of 512-byte GOBs.
C19_TiledLength ==
    pc = "swizzled_size" /\ result.ok =>
        /\ ~le_less(result.len, result.linear_len)
        /\ WholeGobs(result.len)

\* C19: the same when the padded size of the surface is below 2^32.
C19_TiledLengthIfFits ==
    pc = "swizzled_size" /\ result.ok /\ result.fits =>
        /\ ~le_less(result.len, result.linear_len)
        /\ WholeGobs(result.len)

\* C19: a surface of 2^32 bytes or more whose tiled buffer is empty.
C19_TiledEmpty ==
    /\ pc = "swizzled_size"
    /\ result.ok
    /\ result.len = usize_of(0)
    /\ le_less(usize_of(BigDim), result.linear_len)

\* C19: the same surface with overflow checks on: swizzle panics.
C19_SizeOverflowPanics ==
    /\ pc = "swizzled_size"
    /\ result = Panic
    /\ mip_args.width = BigDim /\ mip_args.height = BigDim

\* C19: with the buffers themselves, on the small surfaces: the tiled buffer
\* of block-linear mode is at least as long as the linear one and a whole
\* number of GOBs.
C19_BlockTiledLength ==
    pc = "swizzled" /\ sw_args.tile_mode = 0 =>
        /\ tiled.ok
        /\ Len(tiled.bytes) >= Len(linear)
        /\ Len(tiled.bytes) % GobBytes = 0

\* C19: in pitch-linear mode swizzle returns no whole number of GOBs.
C19_PitchLinearLength ==
    /\ pc = "swizzled"
    /\ sw_args.tile_mode = 1
    /\ tiled.ok
    /\ Len(tiled.bytes) % GobBytes # 0


-----------------------------------------------------------------------------
(* The format catalog, as the documentation states it. *)

FourByteFormats == {"R8G8B8A8Unorm", "R8G8B8A8Srgb", "B8G8R8A8Unorm", "B8G8R8A8Srgb"}

EightByteFormats == {"BC1Unorm", "BC1Srgb", "BC4Unorm", "BC4Snorm"}

SixteenByteFormats ==
    {"R32G32B32A32Float", "BC2Unorm", "BC2Srgb", "BC3Unorm", "BC3Srgb",
     "BC5Unorm", "BC5Snorm", "BC6Ufloat", "BC6Sfloat", "BC7Unorm", "BC7Srgb"}

BCFormats ==
    {"BC1Unorm", "BC1Srgb", "BC2Unorm", "BC2Srgb", "BC3Unorm", "BC3Srgb",
     "BC4Unorm", "BC4Snorm", "BC5Unorm", "BC5Snorm", "BC6Ufloat", "BC6Sfloat",
     "BC7Unorm", "BC7Srgb"}

\* C20: the catalog is defined on each of the 20 formats: bytes_per_pixel is
\* 1 for R8Unorm, 4 for the 8-bit RGBA and BGRA formats, 8 for BC1 and BC4,
\* 16 for R32G32B32A32Float, BC2, BC3, BC5, BC6 and BC7; block width and
\* height are 4 for the BC formats and 1 for the others; block depth is 1;
\* no value is below 1.
C20_FormatCatalog ==
    pc = "sized" =>
        LET f == mip_args.image_format
        IN  /\ Cardinality(NutexbFormat) = 20
            /\ f \in {"R8Unorm"} \union FourByteFormats \union EightByteFormats
                     \union SixteenByteFormats
            /\ f = "R8Unorm" => bytes_per_pixel(f) = 1
            /\ f \in FourByteFormats => bytes_per_pixel(f) = 4
            /\ f \in EightByteFormats => bytes_per_pixel(f) = 8
            /\ f \in SixteenByteFormats => bytes_per_pixel(f) = 16
            /\ block_width(f) = (IF f \in BCFormats THEN 4 ELSE 1)
            /\ block_height(f) = (IF f \in BCFormats THEN 4 ELSE 1)
            /\ block_depth(f) = 1
            /\ block_dim(f) = [width |-> block_width(f),
                               height |-> block_height(f),
                               depth |-> block_depth(f)]
            /\ bytes_per_pixel(f) >= 1
            /\ block_width(f) >= 1 /\ block_height(f) >= 1 /\ block_depth(f) >= 1

\* C20: a BC4 surface of one block sized: its only mip is the 8 bytes of a
\* block.
C20_BC4BlockSized ==
    /\ pc = "sized"
    /\ mip_args.image_format = "BC4Snorm"
    /\ mip_args.width = 4 /\ mip_args.height = 4 /\ mip_args.depth = 1
    /\ mip_args.mip_count = 1
    /\ mip_tables[1][1] = <<8, 0, 0, 0>>


-----------------------------------------------------------------------------
(* The layout of what Write writes: claim C21. *)

\* The bytes written for the tables of the file, one layer after another.
TableBytes(l) == write_layer_mipmaps(file.layer_mipmaps[l])

\* C21: what is written is the data, then a table of exactly 64 bytes for
\* each layer whatever the mip count, then a footer of exactly 112 bytes
\* that begins with the magic: the stream is data.len() + 64 * layer_count
\* + 112 bytes long and the footer starts 112 bytes before its end.
C21_WrittenLayout ==
    pc = "written" =>
        /\ \A l \in DOMAIN file.layer_mipmaps : Len(TableBytes(l)) = LAYER_MIPMAPS_SIZE
        /\ Len(write_footer(file.footer)) = FOOTER_SIZE
        /\ Len(stream) = Len(file.data)
                         + LAYER_MIPMAPS_SIZE * file.footer.layer_count
                         + FOOTER_SIZE
        /\ SubSeq(stream, 1, Len(file.data)) = file.data
        /\ FooterBytes(stream, FooterOffset.magic, 4) = MagicXNT
        /\ SubSeq(stream, Len(stream) - FOOTER_SIZE + 1, Len(stream))
               = write_footer(file.footer)

\* C21 for names shorter than the string's field and mip counts whose sizes
\* fit a table: there it holds.
C21_WrittenLayoutFieldsFit ==
    (/\ pc = "written"
     /\ Len(name) < PadSize
     /\ file.footer.mipmap_count * U32Bytes <= PadSize) =>
        /\ \A l \in DOMAIN file.layer_mipmaps : Len(TableBytes(l)) = LAYER_MIPMAPS_SIZE
        /\ Len(write_footer(file.footer)) = FOOTER_SIZE
        /\ Len(stream) = Len(file.data)
                         + LAYER_MIPMAPS_SIZE * file.footer.layer_count
                         + FOOTER_SIZE
        /\ SubSeq(stream, 1, Len(file.data)) = file.data
        /\ FooterBytes(stream, FooterOffset.magic, 4) = MagicXNT
        /\ SubSeq(stream, Len(stream) - FOOTER_SIZE + 1, Len(stream))
               = write_footer(file.footer)

\* C21: a file of 17 mips written: its table takes 68 bytes and the stream is
\* 4 bytes longer than the layout says.
C21_TableLongerThanItsField ==
    /\ pc = "written"
    /\ Len(name) < PadSize
    /\ file.footer.mipmap_count = 17
    /\ Len(TableBytes(1)) = LAYER_MIPMAPS_SIZE + U32Bytes
    /\ Len(stream) = Len(file.data) + LAYER_MIPMAPS_SIZE + FOOTER_SIZE + U32Bytes

\* C21: a file with a name of 65 bytes written: the footer takes 114 bytes
\* and the bytes at end-112 are not the magic.
C21_FooterLongerThanItsSize ==
    /\ pc = "written"
    /\ Len(name) = PadSize + 1
    /\ Len(write_footer(file.footer)) = FOOTER_SIZE + 2
    /\ FooterBytes(stream, FooterOffset.magic, 4) # MagicXNT


-----------------------------------------------------------------------------
(* NutexbFormat and the DXGI formats of a DDS file. *)

OkFormat(f) == [ok |-> TRUE, format |-> f]

\* impl From<NutexbFormat> for DxgiFormat, the same in both dds.rs
dxgi_from(f) ==
    CASE f = "R8Unorm" -> "R8_UNorm"
      [] f = "R8G8B8A8Unorm" -> "R8G8B8A8_UNorm"
      [] f = "R8G8B8A8Srgb" -> "R8G8B8A8_UNorm_sRGB"
      [] f = "R32G32B32A32Float" -> "R32G32B32A32_Float"
      [] f = "B8G8R8A8Unorm" -> "B8G8R8A8_UNorm"
      [] f = "B8G8R8A8Srgb" -> "B8G8R8A8_UNorm_sRGB"
      [] f = "BC1Unorm" -> "BC1_UNorm"
      [] f = "BC1Srgb" -> "BC1_UNorm_sRGB"
      [] f = "BC2Unorm" -> "BC2_UNorm"
      [] f = "BC2Srgb" -> "BC2_UNorm_sRGB"
      [] f = "BC3Unorm" -> "BC3_UNorm"
      [] f = "BC3Srgb" -> "BC3_UNorm_sRGB"
      [] f = "BC4Unorm" -> "BC4_UNorm"
      [] f = "BC4Snorm" -> "BC4_SNorm"
      [] f = "BC5Unorm" -> "BC5_UNorm"
      [] f = "BC5Snorm" -> "BC5_SNorm"
      [] f = "BC6Ufloat" -> "BC6H_UF16"
      [] f = "BC6Sfloat" -> "BC6H_SF16"
      [] f = "BC7Unorm" -> "BC7_UNorm"
      [] f = "BC7Srgb" -> "BC7_UNorm_sRGB"

\* impl TryFrom<DxgiFormat> for NutexbFormat of src/nutexb/src/dds.rs
try_from_dxgi(value) ==
    CASE value = "R8_UNorm" -> OkFormat("R8Unorm")
      [] value = "R8G8B8A8_UNorm" -> OkFormat("R8G8B8A8Unorm")
      [] value = "R8G8B8A8_UNorm_sRGB" -> OkFormat("R8G8B8A8Srgb")
      [] value = "R32G32B32A32_Float" -> OkFormat("R32G32B32A32Float")
      [] value = "B8G8R8A8_UNorm" -> OkFormat("B8G8R8A8Unorm")
      [] value = "B8G8R8A8_UNorm_sRGB" -> OkFormat("B8G8R8A8Srgb")
      [] value = "BC1_UNorm" -> OkFormat("BC1Unorm")
      [] value = "BC1_UNorm_sRGB" -> OkFormat("BC1Srgb")
      [] value = "BC2_UNorm" -> OkFormat("BC2Unorm")
      [] value = "BC2_UNorm_sRGB" -> OkFormat("BC2Srgb")
      [] value = "BC3_UNorm" -> OkFormat("BC3Unorm")
      [] value = "BC3_UNorm_sRGB" -> OkFormat("BC3Srgb")
      [] value = "BC4_UNorm" -> OkFormat("BC4Unorm")
      [] value = "BC4_SNorm" -> OkFormat("BC4Snorm")
      [] value = "BC5_UNorm" -> OkFormat("BC5Unorm")
      [] value = "BC5_SNorm" -> OkFormat("BC5Snorm")
      [] value = "BC6H_UF16" -> OkFormat("BC6Ufloat")
      [] value = "BC6H_SF16" -> OkFormat("BC6Sfloat")
      [] value = "BC7_UNorm" -> OkFormat("BC7Unorm")
      [] value = "BC7_UNorm_sRGB" -> OkFormat("BC7Srgb")
      [] OTHER -> Err("String")

\* impl TryFrom<DxgiFormat> for NutexbFormat of src/src/dds.rs
try_from_dxgi_src(value) ==
    CASE value = "R8_UNorm" -> OkFormat("R8Unorm")
      [] value = "R8G8B8A8_UNorm" -> OkFormat("R8G8B8A8Unorm")
      [] value = "R8G8B8A8_UNorm_sRGB" -> OkFormat("R8G8B8A8Srgb")
      [] value = "B8G8R8A8_UNorm" -> OkFormat("B8G8R8A8Unorm")
      [] value = "B8G8R8A8_UNorm_sRGB" -> OkFormat("B8G8R8A8Srgb")
      [] value = "BC1_UNorm" -> OkFormat("BC1Unorm")
      [] value = "BC1_UNorm_sRGB" -> OkFormat("BC1Srgb")
      [] value = "BC2_UNorm" -> OkFormat("BC2Unorm")
      [] value = "BC2_UNorm_sRGB" -> OkFormat("BC2Srgb")
      [] value = "BC3_UNorm" -> OkFormat("BC3Unorm")
      [] value = "BC3_UNorm_sRGB" -> OkFormat("BC3Srgb")
      [] value = "BC4_UNorm" -> OkFormat("BC4Unorm")
      [] value = "BC4_SNorm" -> OkFormat("BC4Snorm")
      [] value = "BC5_UNorm" -> OkFormat("BC5Unorm")
      [] value = "BC5_SNorm" -> OkFormat("BC5Snorm")
      [] value = "BC6H_UF16" -> OkFormat("BC6Ufloat")
      [] value = "BC6H_SF16" -> OkFormat("BC6Sfloat")
      [] value = "BC7_UNorm" -> OkFormat("BC7Unorm")
      [] value = "BC7_UNorm_sRGB" -> OkFormat("BC7Srgb")
      [] OTHER -> Err("String")

\* The two copies of dds.rs.
DdsCopies == {"src/nutexb/src/dds.rs", "src/src/dds.rs"}

try_from(copy, value) ==
    IF copy = "src/nutexb/src/dds.rs" THEN try_from_dxgi(value)
    ELSE try_from_dxgi_src(value)

\* DXGI formats that no arm of try_from names.
OtherDxgiFormats ==
    {"Unknown", "R16G16B16A16_Float", "R8G8_UNorm", "BC6H_Typeless", "BC7_Typeless"}

-----------------------------------------------------------------------------
(* Scenario: a NutexbFormat is converted into a DxgiFormat and that back; or
   a DxgiFormat is converted that no NutexbFormat converts into. *)

DdsArgs ==
    [copy : DdsCopies, image_format : NutexbFormat]
    \union [copy : DdsCopies, dxgi : OtherDxgiFormats]

InitDds ==
    /\ pc = "dds"
    /\ mip_args \in DdsArgs
    /\ mip_tables = Idle
    /\ sw_args = Idle /\ linear = Idle /\ tiled = Idle /\ untiled = Idle
    /\ surface = Idle /\ name = Idle /\ file = Idle /\ stream = Idle
    /\ result = Idle

\* DxgiFormat::from(format)
IntoDxgi ==
    /\ pc = "dds"
    /\ "image_format" \in DOMAIN mip_args
    /\ result' = dxgi_from(mip_args.image_format)
    /\ pc' = "dxgi"
    /\ UNCHANGED <<mip_args, mip_tables, sw_args, linear, tiled, untiled,
                   surface, name, file, stream>>

\* NutexbFormat::try_from(dxgi) on what DxgiFormat::from gave
TryFromDxgi ==
    /\ pc = "dxgi"
    /\ result' = try_from(mip_args.copy, result)
    /\ pc' = "back"
    /\ UNCHANGED <<mip_args, mip_tables, sw_args, linear, tiled, untiled,
                   surface, name, file, stream>>

\* NutexbFormat::try_from(dxgi) on another DXGI format
TryFromOtherDxgi ==
    /\ pc = "dds"
    /\ "dxgi" \in DOMAIN mip_args
    /\ result' = try_from(mip_args.copy, mip_args.dxgi)
    /\ pc' = "other_dxgi"
    /\ UNCHANGED <<mip_args, mip_tables, sw_args, linear, tiled, untiled,
                   surface, name, file, stream>>

NextDds == IntoDxgi \/ TryFromDxgi \/ TryFromOtherDxgi

SpecDds == InitDds /\ [][NextDds]_vars

\* C22: every NutexbFormat converted into a DxgiFormat and that converted
\* back with try_from gives Ok of the format.
C22_DxgiMapsBack ==
    pc = "back" => result = OkFormat(mip_args.image_format)

\* C22 for the dds.rs of src/nutexb alone: there it holds.
C22_DxgiMapsBackInNutexb ==
    (pc = "back" /\ mip_args.copy = "src/nutexb/src/dds.rs") =>
        result = OkFormat(mip_args.image_format)

\* C22 for the dds.rs of src/src and every format but R32G32B32A32Float:
\* there it holds.
C22_DxgiMapsBackButFloat ==
    (pc = "back" /\ mip_args.image_format # "R32G32B32A32Float") =>
        result = OkFormat(mip_args.image_format)

\* C22: R32G32B32A32Float through the dds.rs of src/src: try_from gives an
\* error.
C22_FloatDoesNotMapBack ==
    /\ pc = "back"
    /\ mip_args.copy = "src/src/dds.rs"
    /\ mip_args.image_format = "R32G32B32A32Float"
    /\ ~result.ok


-----------------------------------------------------------------------------
(* Scenario: get_addr_block_linear on a position of a surface, as _swizzle
   calls it: base address 0, x below the width and y below the height, both
   in units. *)

\* block_height = 1 << block_height_log_2
BlockHeights == {1, 2, 4, 8, 16}

\* The bytes of a unit in the formats of the catalog.
UnitSizes == {bytes_per_pixel(f) : f \in NutexbFormat}

\* Surfaces in units: the small ones; tall ones, of several blocks of GOBs;
\* a wide one, of more than one GOB in a row whatever the unit; one both wide
\* and tall.
AddrSurfaces ==
    [width : 1..MaxWidth, height : 1..MaxHeight]
    \union [width : {MaxWidth}, height : TallHeights]
    \union [width : {2}, height : {8 * 16 + 2}]
    \union [width : {64 + MaxWidth}, height : {3}]
    \union [width : {32}, height : {28}]

AddrArgs ==
    {[width |-> s.width, height |-> s.height, bpp |-> b, block_height |-> h] :
        s \in AddrSurfaces, b \in UnitSizes, h \in BlockHeights}

InitAddr ==
    /\ pc = "position"
    /\ sw_args \in AddrArgs
    /\ linear = Idle /\ tiled = Idle /\ untiled = Idle
    /\ mip_args = Idle /\ mip_tables = Idle
    /\ surface = Idle /\ name = Idle /\ file = Idle /\ stream = Idle
    /\ result = Idle

GetAddrBlockLinear ==
    /\ pc = "position"
    /\ \E x \in 0..(sw_args.width - 1), y \in 0..(sw_args.height - 1) :
          result' = [x |-> x, y |-> y,
                     pos |-> get_addr_block_linear(x, y, sw_args.width,
                                 sw_args.bpp, 0, sw_args.block_height)]
    /\ pc' = "address"
    /\ UNCHANGED <<mip_args, mip_tables, sw_args, linear, tiled, untiled,
                   surface, name, file, stream>>

NextAddr == GetAddrBlockLinear

SpecAddr == InitAddr /\ [][NextAddr]_vars

\* The address of the documented formula.
DocumentedAddress(x, y, width, bpp, bh) ==
    LET width_in_gobs == CeilDiv(width * bpp, 64)
        gob_index ==
            (y \div (8 * bh)) * width_in_gobs * bh * 512
            + ((x * bpp) \div 64) * bh * 512
            + ((y % (8 * bh)) \div 8) * 512
        within_gob ==
            (((x * bpp) % 64) \div 32) * 256
            + ((y % 8) \div 2) * 64
            + (((x * bpp) % 32) \div 16) * 32
            + (y % 2) * 16
            + ((x * bpp) % 16)
    IN  gob_index + within_gob

\* C23: the address the code computes for a position is the address of the
\* documented formula: the GOB's index and the offset within the GOB.
C23_AddressIsDocumented ==
    pc = "address" =>
        result.pos = DocumentedAddress(result.x, result.y, sw_args.width,
                                       sw_args.bpp, sw_args.block_height)

\* C23: an address all of whose terms are at work: beyond the first block of
\* GOBs, the first GOB of its block and the first GOB of its row, in the
\* upper half of a GOB, on an odd row, not at the start of a 16-byte run.
C23_EveryTermAtWork ==
    /\ pc = "address"
    /\ result.y >= 8 * sw_args.block_height
    /\ (result.y % (8 * sw_args.block_height)) >= 8
    /\ result.x * sw_args.bpp >= 64
    /\ (result.x * sw_args.bpp) % 64 >= 32
    /\ (result.x * sw_args.bpp) % 32 >= 16
    /\ (result.x * sw_args.bpp) % 16 > 0
    /\ result.y % 8 >= 2
    /\ result.y % 2 = 1


-----------------------------------------------------------------------------
(* deswizzle_data_to_mipmaps of mipmaps.rs. *)

\* tegra_swizzle::swizzled_surface_size as mipmaps.rs calls it: the tiled
\* bytes of one surface of width x height units.
swizzled_mip_size(width, height, depth, block_height_gobs, bpp) ==
    depth * swizzle_surf_size(width, height, bpp, FALSE, 0, block_height_gobs)

\* tegra_swizzle::deswizzle_block_linear: the linear bytes of one surface of
\* width x height units, refused when the source is shorter than its tiles.
deswizzle_block_linear(width, height, depth, source, block_height_gobs, bpp) ==
    IF Len(source) < swizzled_mip_size(width, height, depth, block_height_gobs, bpp)
    THEN Err("NotEnoughData")
    ELSE Ok(SubSeq(_swizzle(width, height, depth, 1, 1, 1, FALSE, bpp, 0,
                            Log2(block_height_gobs), source, FALSE).bytes,
                   1, width * height * depth * bpp))

\* The bytes per pixel deswizzle_data_to_mipmaps takes for the offset of the
\* next mip.
OffsetBytesPerPixel == 16

\* deswizzle_data_to_mipmaps from mip on, mipmaps being what the earlier mips
\* gave and offset where they ended.
RECURSIVE deswizzle_mipmaps_from(_, _, _, _, _, _, _, _, _, _)
deswizzle_mipmaps_from(mip, mipmaps, offset, width, height, blk_width, blk_height, bpp, mipmap_count, data) ==
    IF mip >= mipmap_count THEN [ok |-> TRUE, mipmaps |-> mipmaps]
    ELSE LET mip_width == div_round_up(shr(width, mip), blk_width)
             mip_height == div_round_up(shr(height, mip), blk_height)
             base == block_height_mip0(div_round_up(height, blk_height))
             gobs == mip_block_height(mip_height, base)
         IN  IF offset > Len(data) THEN Panic
             ELSE LET deswizzled_mipmap ==
                          unwrap(deswizzle_block_linear(mip_width, mip_height, 1,
                                     SubSeq(data, offset + 1, Len(data)), gobs, bpp))
                  IN  IF ~deswizzled_mipmap.ok THEN Panic
                      ELSE deswizzle_mipmaps_from(mip + 1,
                               Append(mipmaps, deswizzled_mipmap.bytes),
                               offset + swizzled_mip_size(mip_width, mip_height, 1,
                                            gobs, OffsetBytesPerPixel),
                               width, height, blk_width, blk_height, bpp,
                               mipmap_count, data)

deswizzle_data_to_mipmaps(width, height, blk_width, blk_height, bpp, mipmap_count, data) ==
    deswizzle_mipmaps_from(0, <<>>, 0, width, height, blk_width, blk_height, bpp, mipmap_count, data)

-----------------------------------------------------------------------------
(* Scenario: the mips of a surface of one layer are swizzled into one buffer
   by swizzle_mipmaps_to_data and the buffer deswizzled into mips by
   deswizzle_data_to_mipmaps. *)

\* The size in units of mip i: a mip is never below one unit.
MipUnits(a, i) ==
    [width |-> Max(div_round_up(shr(a.width, i), block_width(a.image_format)), 1),
     height |-> Max(div_round_up(shr(a.height, i), block_height(a.image_format)), 1)]

MipBytes(a, i) ==
    MipUnits(a, i).width * MipUnits(a, i).height * bytes_per_pixel(a.image_format)

MipmapsArgs ==
    [image_format : ShortFormats, width : 1..MaxWidth, height : 1..MaxHeight,
     mipmap_count : 1..MaxMipCount]

\* The mips given: mip i has the bytes of its units, no two mips the same
\* bytes.
InitMipmaps ==
    /\ pc = "mipmaps"
    /\ sw_args \in MipmapsArgs
    /\ linear = [m \in 1..sw_args.mipmap_count |->
                    TestBytes(MipBytes(sw_args, m - 1), 50 * m)]
    /\ tiled = Idle /\ untiled = Idle
    /\ mip_args = Idle /\ mip_tables = Idle
    /\ surface = Idle /\ name = Idle /\ file = Idle /\ stream = Idle
    /\ result = Idle

SwizzleMipmapsToData ==
    /\ pc = "mipmaps"
    /\ LET f == sw_args.image_format
       IN  tiled' = swizzle_mipmaps_to_data(sw_args.width, sw_args.height,
                        block_width(f), block_height(f), bytes_per_pixel(f),
                        linear)
    /\ pc' = "data"
    /\ UNCHANGED <<mip_args, mip_tables, sw_args, linear, untiled,
                   surface, name, file, stream, result>>

DeswizzleDataToMipmaps ==
    /\ pc = "data"
    /\ tiled.ok
    /\ LET f == sw_args.image_format
       IN  untiled' = deswizzle_data_to_mipmaps(sw_args.width, sw_args.height,
                          block_width(f), block_height(f), bytes_per_pixel(f),
                          sw_args.mipmap_count, tiled.bytes)
    /\ pc' = "mipmaps_back"
    /\ UNCHANGED <<mip_args, mip_tables, sw_args, linear, tiled,
                   surface, name, file, stream, result>>

NextMipmaps == SwizzleMipmapsToData \/ DeswizzleDataToMipmaps

SpecMipmaps == InitMipmaps /\ [][NextMipmaps]_vars


\* Mip m (from 1) of the surface tiled on its own: swizzle on the mip's units
\* with the mip's block height.
TiledMip(a, m, bytes) ==
    LET units == MipUnits(a, m - 1)
        base == block_height_mip0(MipUnits(a, 0).height)
    IN  swizzle(units.width, units.height, 1, 1, 1, 1, FALSE,
                bytes_per_pixel(a.image_format), 0,
                Log2(mip_block_height(units.height, base)), bytes).bytes

\* Where mip m starts in a layer: the sum of the tiled lengths of the mips
\* before it.
RECURSIVE TiledMipOffset(_, _, _)
TiledMipOffset(a, m, mips) ==
    IF m <= 1 THEN 0
    ELSE TiledMipOffset(a, m - 1, mips) + Len(TiledMip(a, m - 1, mips[m - 1]))

\* The mips of the surface are swizzled into one buffer: each mip tiled on
\* its own, at the offset where the mips before it end, nothing after the
\* last.
MipsConcatenated ==
    /\ tiled.ok
    /\ Len(tiled.bytes) = TiledMipOffset(sw_args, sw_args.mipmap_count + 1, linear)
    /\ \A m \in 1..sw_args.mipmap_count :
          SubSeq(tiled.bytes, TiledMipOffset(sw_args, m, linear) + 1,
                 TiledMipOffset(sw_args, m + 1, linear))
              = TiledMip(sw_args, m, linear[m])

\* No mip has a width or a height that the shifts of the mip level bring to
\* zero.
NoMipBelowOnePixel ==
    /\ shr(sw_args.width, sw_args.mipmap_count - 1) >= 1
    /\ shr(sw_args.height, sw_args.mipmap_count - 1) >= 1

\* C24: the swizzled output of a surface of several mips is the tiled bytes
\* of each mip, tiled on its own, one after another in ascending mip order:
\* mip i starts where the tiled bytes of the mips 0..i-1 end, so no two mips
\* share a byte.
C24_MipsConcatenated ==
    pc = "data" => MipsConcatenated

\* C24 for surfaces none of whose mips is below one pixel in width or height:
\* there it holds.
C24_MipsConcatenatedFromOnePixel ==
    (pc = "data" /\ NoMipBelowOnePixel) => MipsConcatenated

\* C24: a surface of 1x4 pixels and two mips: the output is the 512 bytes of
\* mip 0 and the 512 bytes mip 1 has tiled are not in it.
C24_MipLeftOut ==
    /\ pc = "data"
    /\ sw_args.image_format = "R8Unorm"
    /\ sw_args.width = 1 /\ sw_args.height = 4 /\ sw_args.mipmap_count = 2
    /\ tiled.ok
    /\ Len(TiledMip(sw_args, 2, linear[2])) = GobBytes
    /\ tiled.bytes = TiledMip(sw_args, 1, linear[1])

\* The slices of the linear buffer of a surface of layers and mips, layer by
\* layer and within a layer mip by mip, each tiled on its own.
RECURSIVE TiledSurface(_, _, _, _)
TiledSurface(a, layer, m, offset) ==
    IF layer > a.layer_count THEN <<>>
    ELSE IF m > a.mipmap_count THEN TiledSurface(a, layer + 1, 1, offset)
    ELSE TiledMip(a, m, SubSeq(linear, offset + 1, offset + MipBytes(a, m - 1)))
         \o TiledSurface(a, layer, m + 1, offset + MipBytes(a, m - 1))

\* C24 with layers, for swizzle_data: the output is the chain of tiled mips
\* of layer 0, then that of layer 1, and so on.
C24_LayersOfMipChains ==
    pc = "tiled" =>
        /\ tiled.ok
        /\ tiled.bytes = TiledSurface(sw_args, 1, 1, 0)

\* C24: swizzle_data on a surface of two layers of two mips.
C24_TwoLayersOfTwoMips ==
    /\ pc = "tiled"
    /\ tiled.ok
    /\ sw_args.layer_count = 2 /\ sw_args.mipmap_count = 2
    /\ sw_args.width > 2 /\ sw_args.height > 2


-----------------------------------------------------------------------------
(* Scenario: read_options statement by statement.  The reader is a cursor
   over the stream; `result` holds its position, what was read so far and
   the seeks and reads done, in order. *)

\* reader.seek(SeekFrom::Current(-(FOOTER_SIZE + LAYER_MIPMAPS_SIZE * layer_count)))
\* going back one table however many layers.
seek_layer_mipmaps_one_layer(pos, footer) ==
    pos - (FOOTER_SIZE + LAYER_MIPMAPS_SIZE)

\* reader.seek(SeekFrom::Current(-(FOOTER_SIZE + LAYER_MIPMAPS_SIZE * layer_count)))
seek_layer_mipmaps(pos, footer) ==
    pos - (FOOTER_SIZE + LAYER_MIPMAPS_SIZE * footer.layer_count)

\* A seek or a read done: where, and of how many elements.
Step(op, pos, count) == [op |-> op, pos |-> pos, count |-> count]

\* The reader after an error: read_options returns it.
Failed(r, e) == [ok |-> FALSE, error |-> e, steps |-> r.steps]

\* The streams read: what Write writes for a file, and the other streams made
\* of it.
ReadFiles ==
    {create_nutexb(s, n).file :
        s \in {t \in Surfaces : create_nutexb(t, NameOfLen(3)).ok}, n \in Names}
    \union {create_nutexb_unswizzled(s, n) : s \in Surfaces, n \in Names}

InitRead ==
    /\ pc = "reader"
    /\ file \in ReadFiles
    /\ stream \in {write_file(file)} \union OtherStreams(write_file(file))
    /\ result = [ok |-> TRUE, pos |-> 0, steps |-> <<>>]
    /\ surface = Idle /\ name = Idle
    /\ mip_args = Idle /\ mip_tables = Idle
    /\ sw_args = Idle /\ linear = Idle /\ tiled = Idle /\ untiled = Idle

\* reader.seek(SeekFrom::End(-(FOOTER_SIZE as i64)))?
SeekFooter ==
    /\ pc = "reader"
    /\ LET pos == Len(stream) - FOOTER_SIZE
       IN  IF pos < 0
           THEN /\ result' = Failed(result, "Io")
                /\ pc' = "read_failed"
           ELSE /\ result' = [result EXCEPT !.pos = pos,
                                 !.steps = Append(@, Step("seek", pos, 0))]
                /\ pc' = "at_footer"
    /\ UNCHANGED <<mip_args, mip_tables, sw_args, linear, tiled, untiled,
                   surface, name, file, stream>>

\* let footer: NutexbFooter = reader.read_le()?
ReadFooter ==
    /\ pc = "at_footer"
    /\ LET footer == read_footer(stream, result.pos)
           steps == Append(result.steps, Step("read_footer", result.pos, 1))
       IN  IF ~footer.ok
           THEN /\ result' = Failed([steps |-> steps], footer.error)
                /\ pc' = "read_failed"
           ELSE /\ result' = [ok |-> TRUE, pos |-> footer.pos, steps |-> steps,
                              footer |-> footer.value]
                /\ pc' = "footer"
    /\ UNCHANGED <<mip_args, mip_tables, sw_args, linear, tiled, untiled,
                   surface, name, file, stream>>

\* reader.seek(SeekFrom::Current(..))?; let data_size = reader.stream_position()?
SeekLayerMipmaps ==
    /\ pc = "footer"
    /\ LET pos == seek_layer_mipmaps(result.pos, result.footer)
       IN  IF pos < 0
           THEN /\ result' = Failed(result, "Io")
                /\ pc' = "read_failed"
           ELSE /\ result' = [ok |-> TRUE, pos |-> pos,
                              steps |-> Append(result.steps, Step("seek", pos, 0)),
                              footer |-> result.footer, data_size |-> pos]
                /\ pc' = "at_layer_mipmaps"
    /\ UNCHANGED <<mip_args, mip_tables, sw_args, linear, tiled, untiled,
                   surface, name, file, stream>>

\* let layer_mipmaps: Vec<LayerMipmaps> = reader.read_le_args(..)?
ReadLayerMipmaps ==
    /\ pc = "at_layer_mipmaps"
    /\ LET layer_mipmaps ==
               read_vec_layer_mipmaps(stream, result.pos, result.footer.layer_count,
                                      result.footer.mipmap_count)
           steps == Append(result.steps,
                           Step("read_layer_mipmaps", result.pos,
                                result.footer.layer_count))
       IN  IF ~layer_mipmaps.ok
           THEN /\ result' = Failed([steps |-> steps], layer_mipmaps.error)
                /\ pc' = "read_failed"
           ELSE /\ result' = [ok |-> TRUE, pos |-> layer_mipmaps.pos,
                              steps |-> steps, footer |-> result.footer,
                              data_size |-> result.data_size,
                              layer_mipmaps |-> layer_mipmaps.value]
                /\ pc' = "layer_mipmaps"
    /\ UNCHANGED <<mip_args, mip_tables, sw_args, linear, tiled, untiled,
                   surface, name, file, stream>>

\* reader.seek(SeekFrom::Start(0))?
SeekStart ==
    /\ pc = "layer_mipmaps"
    /\ result' = [result EXCEPT !.pos = 0,
                      !.steps = Append(@, Step("seek", 0, 0))]
    /\ pc' = "at_start"
    /\ UNCHANGED <<mip_args, mip_tables, sw_args, linear, tiled, untiled,
                   surface, name, file, stream>>

\* let mut data = vec![0u8; data_size as usize]; reader.read_exact(&mut data)?;
\* Ok(Self { data, layer_mipmaps, footer })
ReadData ==
    /\ pc = "at_start"
    /\ LET data == read_bytes(stream, result.pos, result.data_size)
           steps == Append(result.steps,
                           Step("read_data", result.pos, result.data_size))
       IN  IF ~data.ok
           THEN /\ result' = Failed([steps |-> steps], data.error)
                /\ pc' = "read_failed"
           ELSE /\ result' = [ok |-> TRUE, steps |-> steps,
                              file |-> [data |-> data.value,
                                        layer_mipmaps |-> result.layer_mipmaps,
                                        footer |-> result.footer]]
                /\ pc' = "read_done"
    /\ UNCHANGED <<mip_args, mip_tables, sw_args, linear, tiled, untiled,
                   surface, name, file, stream>>

NextRead ==
    \/ SeekFooter
    \/ ReadFooter
    \/ SeekLayerMipmaps
    \/ ReadLayerMipmaps
    \/ SeekStart
    \/ ReadData

SpecRead == InitRead /\ [][NextRead]_vars

\* The steps of a reader in the order stated, for a stream of len bytes whose
\* footer says layer_count.
StatedSteps(len, layer_count) ==
    LET footer_at == len - 112
        tables_at == len - 112 - 64 * layer_count
    IN  <<Step("seek", footer_at, 0),
          Step("read_footer", footer_at, 1),
          Step("seek", tables_at, 0),
          Step("read_layer_mipmaps", tables_at, layer_count),
          Step("seek", 0, 0),
          Step("read_data", 0, tables_at)>>

\* The layer count in the last 112 bytes of the stream.
StreamLayerCount == from_le_bytes(FooterBytes(stream, FooterOffset.layer_count, 4))

\* C25: decode goes in one order: the footer is parsed at end-112 first, then
\* the reader seeks to end - 112 - 64 * layer_count and parses layer_count
\* tables, and only then reads the data from offset 0: what the reader has
\* done at any time is a beginning of that order.
C25_FooterThenTablesThenData ==
    pc \in {"at_footer", "footer", "at_layer_mipmaps", "layer_mipmaps",
            "at_start", "read_done", "read_failed"} =>
        /\ Len(result.steps) <= 6
        /\ Len(result.steps) > 0 =>
              result.steps = SubSeq(StatedSteps(Len(stream), StreamLayerCount),
                                    1, Len(result.steps))

\* C25: a stream of two layers read to the end: six steps, the data read
\* last.
C25_TwoLayersRead ==
    /\ pc = "read_done"
    /\ result.file.footer.layer_count = 2
    /\ Len(result.file.data) > 0
    /\ Len(result.steps) = 6
    /\ result.steps[6].op = "read_data"

\* C25: read_options gives what its statements give one after another.
C25_StepsAreReadOptions ==
    /\ pc = "read_done" =>
          /\ read_options(stream).ok
          /\ result.file = read_options(stream).file
    /\ pc = "read_failed" => read_options(stream) = Err(result.error)


-----------------------------------------------------------------------------
(* The addresses of the positions of a surface: claims C26, C27. *)

AddressOf(x, y) ==
    get_addr_block_linear(x, y, sw_args.width, sw_args.bpp, 0, sw_args.block_height)

\* C26: the bytes of the unit at the position addressed, [pos, pos + bpp),
\* are the bytes of no other position of the surface.
C26_UnitsDoNotOverlap ==
    pc = "address" =>
        \A x \in 0..(sw_args.width - 1), y \in 0..(sw_args.height - 1) :
            \/ x = result.x /\ y = result.y
            \/ AddressOf(x, y) + sw_args.bpp <= result.pos
            \/ result.pos + sw_args.bpp <= AddressOf(x, y)

\* C26: a position in the second GOB of its row and the second row of GOBs of
\* its block, on a surface of several blocks.
C26_PositionAmongMany ==
    /\ pc = "address"
    /\ sw_args.block_height > 1
    /\ sw_args.height > 8 * sw_args.block_height
    /\ result.x * sw_args.bpp >= 64
    /\ result.y % (8 * sw_args.block_height) >= 8
    /\ sw_args.width * sw_args.height > 64

\* The padded size of the surface in block-linear mode.
PaddedSize ==
    LET pitch == 64 * CeilDiv(sw_args.width * sw_args.bpp, 64)
        rows == 8 * sw_args.block_height
                * CeilDiv(sw_args.height, 8 * sw_args.block_height)
    IN  pitch * rows

\* C27: the unit at every position of the surface ends within the padded
\* size of the surface, round_up(width * bpp, 64) * round_up(height,
\* 8 * block_height), as _swizzle computes it: the skip of offsets out of
\* range drops no unit.
C27_UnitWithinPaddedSize ==
    pc = "address" =>
        /\ swizzle_surf_size(sw_args.width, sw_args.height, sw_args.bpp, FALSE, 0,
                             sw_args.block_height) = PaddedSize
        /\ result.pos + sw_args.bpp
              <= swizzle_surf_size(sw_args.width, sw_args.height, sw_args.bpp,
                                   FALSE, 0, sw_args.block_height)

\* C27: the last unit of a surface that fills its GOBs: it ends with the
\* padded size.
C27_LastUnitEndsSurface ==
    /\ pc = "address"
    /\ result.x = sw_args.width - 1 /\ result.y = sw_args.height - 1
    /\ result.pos + sw_args.bpp = PaddedSize
    /\ sw_args.width * sw_args.bpp >= 64

\* C27: every unit of the source is copied: the tiled buffer of swizzle holds
\* at the address of each position the bytes of the unit of that position.
C27_EveryUnitCopied ==
    (pc = "swizzled" /\ sw_args.tile_mode = 0) =>
        /\ tiled.ok
        /\ LET base == BaseUnits(sw_args)
               bpp == bytes_per_pixel(sw_args.image_format)
           IN  \A x \in 0..(base.width - 1), y \in 0..(base.height - 1) :
                  LET pos == get_addr_block_linear(x, y, base.width, bpp, 0,
                                 Pow2(base.block_height_log_2))
                      pos_ == (y * base.width + x) * bpp
                  IN  SubSeq(tiled.bytes, pos + 1, pos + bpp)
                          = SubSeq(linear, pos_ + 1, pos_ + bpp)


-----------------------------------------------------------------------------
(* The addresses on surfaces of any size: claims C23, C26, C27. *)

\* The address of the documented formula, as a number of any size.
DocumentedAddressUsize(x, y, width, bpp, bh) ==
    LET width_in_gobs == CeilDiv(width * bpp, 64)
        gob_index_above ==
            usize_mul(usize_mul(usize_of(y \div (8 * bh)), width_in_gobs), bh * 512)
        rest ==
            ((x * bpp) \div 64) * bh * 512
            + ((y % (8 * bh)) \div 8) * 512
            + (((x * bpp) % 64) \div 32) * 256
            + ((y % 8) \div 2) * 64
            + (((x * bpp) % 32) \div 16) * 32
            + (y % 2) * 16
            + ((x * bpp) % 16)
    IN  usize_add(gob_index_above, usize_of(rest))

AddressedSurface == BaseUnits(mip_args)

\* C23 on surfaces of any size: the address the code computes is the address
\* of the documented formula.
C23_AddressIsDocumentedAnySize ==
    (pc = "address_u32" /\ result.ok) =>
        result.pos = DocumentedAddressUsize(result.x, result.y,
                         AddressedSurface.width, result.bpp,
                         Pow2(AddressedSurface.block_height_log_2))

\* C23: a position whose documented address is 2^32 and whose computed
\* address is 0.
C23_AddressWraps ==
    /\ pc = "address_u32"
    /\ result.ok
    /\ result.x = 0 /\ result.y > 0
    /\ result.pos = usize_of(0)
    /\ DocumentedAddressUsize(result.x, result.y, AddressedSurface.width,
           result.bpp, Pow2(AddressedSurface.block_height_log_2))
         = <<0, 0, 0, 0, 1, 0, 0, 0>>

\* C26 on surfaces of any size, for the unit at (0, 0), whose bytes are
\* [0, bpp): the unit of no other position begins within them.
C26_FirstUnitNotOverlapped ==
    (pc = "address_u32" /\ result.ok /\ <<result.x, result.y>> # <<0, 0>>) =>
        ~le_less(result.pos, usize_of(result.bpp))

\* C26: a position other than (0, 0) with the address 0.
C26_SecondPositionAtZero ==
    /\ pc = "address_u32"
    /\ result.ok
    /\ <<result.x, result.y>> # <<0, 0>>
    /\ result.pos = usize_of(0)

\* C27 on surfaces of any size, for the unit at (0, 0): its bytes end within
\* the size _swizzle computes for the surface, so that the skip of offsets
\* out of range does not drop it.
C27_FirstUnitNotSkipped ==
    (pc = "swizzled_size" /\ result.ok) =>
        ~le_less(result.len, usize_of(bytes_per_pixel(mip_args.image_format)))

\* C27: a surface whose size _swizzle computes as 0: the skip drops every
\* unit.
C27_EveryUnitSkipped ==
    /\ pc = "swizzled_size"
    /\ result.ok
    /\ ~result.fits
    /\ result.len = usize_of(0)


-----------------------------------------------------------------------------
(* The mips swizzled and deswizzled: claim C28. *)

\* C28: deswizzle_data_to_mipmaps reads each mip where
\* swizzle_mipmaps_to_data, called with the same sizes and bytes per pixel,
\* wrote it: the mips come back as they were given.
C28_MipmapsComeBack ==
    pc = "mipmaps_back" =>
        /\ untiled.ok
        /\ untiled.mipmaps = linear

\* C28 for formats of 16 bytes per unit and surfaces none of whose mips is
\* below one pixel: there it holds.
C28_MipmapsComeBackSixteenBytes ==
    (/\ pc = "mipmaps_back"
     /\ bytes_per_pixel(sw_args.image_format) = OffsetBytesPerPixel
     /\ NoMipBelowOnePixel) =>
        /\ untiled.ok
        /\ untiled.mipmaps = linear

\* C28 for a single mip: there it holds.
C28_OneMipComesBack ==
    (pc = "mipmaps_back" /\ sw_args.mipmap_count = 1) =>
        /\ untiled.ok
        /\ untiled.mipmaps = linear

\* C28: an R8Unorm surface of 5x4 pixels and two mips: mip 1 was written 512
\* bytes into the data and is read 1024 bytes into it, where the data ends:
\* deswizzle_data_to_mipmaps panics.
C28_SecondMipReadBeyondData ==
    /\ pc = "mipmaps_back"
    /\ sw_args.image_format = "R8Unorm"
    /\ sw_args.width = 5 /\ sw_args.height = 4 /\ sw_args.mipmap_count = 2
    /\ NoMipBelowOnePixel
    /\ TiledMipOffset(sw_args, 2, linear) = 512
    /\ Len(tiled.bytes) = 1024
    /\ untiled = Panic

\* C28: an R32G32B32A32Float surface of 1x4 pixels and two mips: mip 1, of
\* 1x2 pixels, comes back with no bytes.
C28_MipComesBackEmpty ==
    /\ pc = "mipmaps_back"
    /\ sw_args.image_format = "R32G32B32A32Float"
    /\ sw_args.width = 1 /\ sw_args.height = 4 /\ sw_args.mipmap_count = 2
    /\ untiled.ok
    /\ untiled.mipmaps[1] = linear[1]
    /\ Len(linear[2]) = 32
    /\ untiled.mipmaps[2] = <<>>


-----------------------------------------------------------------------------
(* What optimize_size leaves alone, and the flags as decoded: claim C29. *)

\* after is before but for its data and its footer's data_size.
OnlyDataAndDataSize(before, after) ==
    after = [before EXCEPT !.data = after.data,
                           !.footer.data_size = after.footer.data_size]

\* Where the footer read from bytes has its fields after the string: the
\* string's field is skipped to PadSize bytes.
FooterFieldsAt(bytes, string) ==
    LET start == Len(bytes) - FOOTER_SIZE + FooterOffset.string
    IN  pad_size_to_pos(start, start + Len(string) + 1, PadSize)

\* The u32 that the bytes hold for the field that starts at FooterOffset[field]
\* in a footer whose string has not outgrown its field.
FlagInStream(bytes, string, field) ==
    LET at == FooterFieldsAt(bytes, string)
                 + FooterOffset[field] - (FooterOffset.string + PadSize)
    IN  from_le_bytes(SubSeq(bytes, at + 1, at + U32Bytes))

\* C29: a step of optimize_size, on a file just made or on a file just read,
\* leaves the file as it was but for data and footer.data_size (name, width,
\* height, depth, format, unk2, unk3, mipmap_count, layer_count, version and
\* the layers' mip tables are as before), and a file that is read has the
\* unk2 and unk3 that the stream's bytes hold, whatever their values.
C29_OnlyDataAndDataSizeChange ==
    [][/\ OptimizeSize => OnlyDataAndDataSize(file, file')
       /\ OptimizeSizeRead => OnlyDataAndDataSize(result.file, result'.file)
       /\ (Read /\ result'.ok) =>
              /\ result'.file.footer.unk2
                    = FlagInStream(stream, result'.file.footer.string, "unk2")
              /\ result'.file.footer.unk3
                    = FlagInStream(stream, result'.file.footer.string, "unk3")]_vars

\* C29: a file read with an unk3 that no encoder sets, 0x1005, has been
\* through optimize_size: its data is of another length than the data
\* written, and its unk3 is still 0x1005.
C29_UnrecognisedFlagKept ==
    /\ pc = "read_optimized"
    /\ FlagInStream(stream, result.file.footer.string, "unk3") = 4101
    /\ result.file.footer.unk3 = 4101
    /\ result.file.footer.unk2 = file.footer.unk2
    /\ result.file.layer_mipmaps = file.layer_mipmaps
    /\ Len(result.file.data) # Len(file.data)
    /\ result.file.footer.data_size # file.footer.data_size

\* C29: a file read with an unk2 that no encoder sets, 7, has been through
\* optimize_size and its unk2 is still 7.
C29_UnrecognisedUnk2Kept ==
    /\ pc = "read_optimized"
    /\ FlagInStream(stream, result.file.footer.string, "unk2") = 7
    /\ result.file.footer.unk2 = 7


-----------------------------------------------------------------------------
(* Scenario: a surface is made a NutexbFile by from_surface or
   from_surface_unswizzled; the file then goes through optimize_size and
   through write followed by read, any number of times and in any order. *)

\* How many bytes more than its surface's a file's data may be of and still
\* be written: a layer's table of 17 mips is 4 bytes longer than its field,
\* and these are read back as data.
MaxGrown == 8

InitCycle ==
    /\ pc = "surface"
    /\ surface \in Surfaces
    /\ name \in Names
    /\ file = Idle /\ stream = Idle /\ result = Idle
    /\ mip_args = Idle /\ mip_tables = Idle
    /\ sw_args = Idle /\ linear = Idle /\ tiled = Idle /\ untiled = Idle

\* NutexbFile::from_surface
FromSurfaceCycle ==
    /\ pc = "surface"
    /\ LET made == create_nutexb(surface, name)
       IN  IF made.ok
           THEN /\ file' = made.file
                /\ pc' = "nutexb"
                /\ UNCHANGED result
           ELSE /\ result' = made
                /\ pc' = "failed"
                /\ UNCHANGED file
    /\ UNCHANGED <<mip_args, mip_tables, sw_args, linear, tiled, untiled,
                   surface, name, stream>>

\* NutexbFile::from_surface_unswizzled
FromSurfaceUnswizzledCycle ==
    /\ pc = "surface"
    /\ file' = create_nutexb_unswizzled(surface, name)
    /\ pc' = "nutexb"
    /\ UNCHANGED <<mip_args, mip_tables, sw_args, linear, tiled, untiled,
                   surface, name, stream, result>>

\* NutexbFile::optimize_size
OptimizeSizeCycle ==
    /\ pc = "nutexb"
    /\ file' = optimize_size(file)
    /\ UNCHANGED <<pc, mip_args, mip_tables, sw_args, linear, tiled, untiled,
                   surface, name, stream, result>>

\* The most bytes the data of a file made from s can be of when nothing was
\* read as data that was not written as data.
MostData(s) ==
    swizzled_surface_size(s.width, s.height, s.depth, block_dim(s.image_format),
        bytes_per_pixel(s.image_format), s.mipmap_count, s.layer_count)

\* NutexbFile::write, of files whose data has grown by at most MaxGrown bytes
WriteCycle ==
    /\ pc = "nutexb"
    /\ Len(file.data) <= MostData(surface) + MaxGrown
    /\ stream' = write_file(file)
    /\ pc' = "stream"
    /\ UNCHANGED <<mip_args, mip_tables, sw_args, linear, tiled, untiled,
                   surface, name, file, result>>

\* NutexbFile::read of the bytes just written; the file read takes the place
\* of the file written.
ReadCycle ==
    /\ pc = "stream"
    /\ LET r == read_options(stream)
       IN  IF r.ok
           THEN /\ file' = r.file
                /\ pc' = "nutexb"
                /\ UNCHANGED result
           ELSE /\ result' = r
                /\ pc' = "failed"
                /\ UNCHANGED file
    /\ UNCHANGED <<mip_args, mip_tables, sw_args, linear, tiled, untiled,
                   surface, name, stream>>

NextCycle ==
    \/ FromSurfaceCycle
    \/ FromSurfaceUnswizzledCycle
    \/ OptimizeSizeCycle
    \/ WriteCycle
    \/ ReadCycle

SpecCycle == InitCycle /\ [][NextCycle]_vars

-----------------------------------------------------------------------------
(* What holds of a NutexbFile after every operation: claim C30. *)

\* The name fits its field with its zero and every layer's table fits its.
WithinFields ==
    /\ Len(name) <= PadSize - 1
    /\ surface.mipmap_count <= PadSize \div U32Bytes

\* The three equalities of C30, for a file held byte for byte.
FileInvariant(f) ==
    /\ f.footer.data_size = Len(f.data)
    /\ Len(f.layer_mipmaps) = f.footer.layer_count
    /\ \A l \in 1..Len(f.layer_mipmaps) :
          Len(f.layer_mipmaps[l]) = f.footer.mipmap_count

\* C30 (surfaces of any size, the data by its length): after from_surface
\* and after optimize_size, of a surface of at most 16 mips, the footer's
\* data_size is the length of the data.
C30_DataSizeIsDataLengthAfterEach ==
    (pc \in {"made", "resized"} /\ mip_args.mip_count <= PadSize \div U32Bytes) =>
        ZeroExtend(result.data_size, UsizeBytes) = result.data_len

\* C30: from_surface of an R8Unorm surface of 65536 x 65536 pixels in two
\* layers made data of 2^33 bytes and a data_size of 0.
C30_DataSizeOfTwoLayersZero ==
    /\ pc = "made"
    /\ mip_args.image_format = "R8Unorm"
    /\ mip_args.width = BigDim /\ mip_args.height = BigDim
    /\ mip_args.depth = 1 /\ mip_args.mip_count = 1
    /\ mip_args.layer_count = 2
    /\ result.data_len = <<0, 0, 0, 0, 2, 0, 0, 0>>
    /\ result.data_size = <<0, 0, 0, 0>>

\* C30 for the files held byte for byte: after from_surface or
\* from_surface_unswizzled and any number of optimize_size, write and read,
\* the name being of at most 63 bytes and the mips at most 16, the three
\* equalities hold of the file, and no read of written bytes fails.
C30_FileInvariantByBytes ==
    WithinFields =>
        /\ pc \in {"nutexb", "stream"} => FileInvariant(file)
        /\ pc = "failed" => file = Idle

\* C30: a file that was made by from_surface_unswizzled from image data one
\* byte short, resized, written and read back: its data_size is the length
\* of its data, one more than the image data's.
C30_CycleAfterResize ==
    /\ pc = "nutexb"
    /\ WithinFields
    /\ stream # Idle
    /\ file = read_options(stream).file
    /\ file.footer.unk3 = 0
    /\ surface.layer_count = 1 /\ surface.mipmap_count = 1
    /\ Len(file.data) = Len(surface.image_data) + 1
    /\ FileInvariant(file)

\* C30: a surface of 17 mips was made a file, written and read back, and
\* the file's data_size is not the length of its data.
C30_SeventeenMipsBreak ==
    /\ pc = "nutexb"
    /\ stream # Idle
    /\ surface.mipmap_count = (PadSize \div U32Bytes) + 1
    /\ file.footer.data_size # Len(file.data)

=============================================================================
